---------------------------- MODULE Spec2Model ----------------------------
(***************************************************************************)
(* A model of the kdevops lint-fixing utilities:                           *)
(*   scripts/ansible-lint-comprehensive-fixer.py                           *)
(*   scripts/ansible-lint-fix-rules.py                                     *)
(*   scripts/fix_ansible_lint.py                                           *)
(*                                                                         *)
(* Text is modelled as sequences of one-character strings, a file's        *)
(* content as the sequence of its lines (content.split("\n") and           *)
(* "\n".join(lines) are inverse to each other on that representation).     *)
(***************************************************************************)
EXTENDS Integers, Sequences, FiniteSets, TLC

VARIABLES
    \* ---- ChangeFilter / AnsibleFixer change-scope state
    repoDiff,             \* the hunk and text lines of `git diff HEAD~1 HEAD`, each with its path
    changed_lines_cache,  \* ChangeFilter.changed_lines_cache
    query,                \* the last get_changed_lines call and what it returned
    first_outcome,        \* per path, how its first returning call got its set
    repeated,             \* whether the last call was for a path answered before
    \* ---- a run of one of the two rule-by-rule orchestrators
    script,               \* "comprehensive" (ansible-lint-comprehensive-fixer.py) or "fixrules" (ansible-lint-fix-rules.py)
    auto_accept,          \* the --auto flag
    worktree,             \* per file, its content on disk
    index,                \* per file, its content in git's index
    headTree,             \* per file, its content in the HEAD commit
    commits,              \* the commits the run created, oldest first
    pos,                  \* number of rules the loop has taken so far
    phase,                \* "rules" while the loop runs, "done" after it
    processed_rules,      \* self.processed_rules
    failed_rules,         \* self.failed_rules
    msgs,                 \* per rule, the messages the run printed about it
    last,                 \* what happened while the latest rule was processed
    \* ---- the hand-written fixes applied to one file
    manual_rule,          \* the manual rule the run was restricted to
    changes_only,         \* whether a change filter gates the lines
    changed_lines,        \* the changed-line set the filter holds for the file
    file_lines,           \* the lines of the file on disk
    original_content,     \* the lines the latest fix read
    was_modified,         \* what the latest apply_single_manual_fix reported
    fixes,                \* number of times the fix was applied to the file
    \* ---- the rule catalog: AnsibleLintProcessor.get_fixable_rules
    json_listing,         \* what `ansible-lint --list-rules -f json` does
    text_listing,         \* what `ansible-lint --list-rules --nocolor` does
    fixable,              \* what the latest get_fixable_rules call came to
    \* ---- the commit-message prefix
    target_path,          \* the target path of the run, relative to the working directory
    commit_files,         \* the changed files the commit message is built for
    prefix,               \* what _get_commit_prefix returned
    \* ---- file discovery
    root_path,            \* the root path discovery starts from
    discover_mode,        \* "recursive" or "changes" (changes-only)
    fs_tree,              \* the files below the root (in changes-only mode: the changed files)
    user_excludes,        \* the exclude patterns given on the command line
    discovered,           \* what find_ansible_files returned
    \* ---- the telemetry plotters
    plotter,              \* "ocp" (plot_nvme_ocp_stats.py) or "smart" (plot_nvme_smart_stats.py)
    log_entries,          \* the timestamped blocks of the log file
    parsed,               \* what parsing the file came to
    series,               \* the latest extract_metric_series result
    \* ---- generate_refs.py
    refs_cmd,             \* args.cmd: "gitref" or "kreleases"
    remote_out,           \* what remote() returns: the lines of the heads and of the tags listing
    refs_limit,           \* args.refs
    extra,                \* the configs of the --extra file
    releases,             \* data["releases"] of the feed
    wanted_moniker,       \* args.moniker
    ref_list,             \* the reflist handed to ref_generator
    output,               \* the lines of the generated file
    \* ---- generate_refs.py run again and again
    ref_file,             \* args.output: its lines, or NoFile
    ref_mtime,            \* os.path.getmtime of the output file
    clock,                \* time.time()
    main_runs,            \* the runs so far
    waited,               \* time has passed since the last run
    remote_queries,       \* the times the remote side was asked
    last_main,            \* the last run: its arguments and what it found
    \* ---- the configuration file of the comprehensive fixer
    command_line,         \* the options as written on the command line
    config_file,          \* config_overrides: the top-level keys of the file
    merged_args,          \* args once the overrides are applied
    \* ---- a run of an orchestrator as a process
    interruption,         \* where the run was interrupted, and how the process ended
    dry_run,              \* --dry-run
    run_mode,             \* what main() dispatched to: rule by rule, by tag, the hand-written fixes
    commands              \* the kinds of command the process has run

diffVars == <<repoDiff, changed_lines_cache, query, first_outcome, repeated>>
runVars == <<script, auto_accept, worktree, index, headTree, commits, pos, phase,
             processed_rules, failed_rules, msgs, last>>
fixVars == <<manual_rule, changes_only, changed_lines, file_lines, original_content,
             was_modified, fixes>>
catalogVars == <<json_listing, text_listing, fixable>>
prefixVars == <<target_path, commit_files, prefix>>
discoverVars == <<root_path, discover_mode, fs_tree, user_excludes, discovered>>
telemetryVars == <<plotter, log_entries, parsed, series>>
refsVars ==
    <<refs_cmd, remote_out, refs_limit, extra, releases, wanted_moniker, ref_list, output>>
regenVars ==
    <<ref_file, ref_mtime, clock, main_runs, waited, remote_queries, last_main>>
configVars == <<command_line, config_file, merged_args>>
interruptVars == <<interruption>>
dryVars == <<dry_run, run_mode, commands>>
vars ==
    <<diffVars, runVars, fixVars, catalogVars, prefixVars, discoverVars, telemetryVars,
      refsVars, regenVars, configVars, interruptVars, dryVars>>

\* the variables outside each part of the model
outsideDiff ==
    <<runVars, fixVars, catalogVars, prefixVars, discoverVars, telemetryVars, refsVars, regenVars, configVars, interruptVars, dryVars>>
outsideRun ==
    <<diffVars, fixVars, catalogVars, prefixVars, discoverVars, telemetryVars, refsVars, regenVars, configVars, interruptVars, dryVars>>
outsideFix ==
    <<diffVars, runVars, catalogVars, prefixVars, discoverVars, telemetryVars, refsVars, regenVars, configVars, interruptVars, dryVars>>
outsideCatalog ==
    <<diffVars, runVars, fixVars, prefixVars, discoverVars, telemetryVars, refsVars, regenVars, configVars, interruptVars, dryVars>>
outsidePrefix ==
    <<diffVars, runVars, fixVars, catalogVars, discoverVars, telemetryVars, refsVars, regenVars, configVars, interruptVars, dryVars>>
outsideDiscover ==
    <<diffVars, runVars, fixVars, catalogVars, prefixVars, telemetryVars, refsVars, regenVars, configVars, interruptVars, dryVars>>
outsideTelemetry ==
    <<diffVars, runVars, fixVars, catalogVars, prefixVars, discoverVars, refsVars, regenVars, configVars, interruptVars, dryVars>>
outsideRefs ==
    <<diffVars, runVars, fixVars, catalogVars, prefixVars, discoverVars, telemetryVars, regenVars, configVars, interruptVars, dryVars>>
outsideRegen ==
    <<diffVars, runVars, fixVars, catalogVars, prefixVars, discoverVars, telemetryVars, refsVars, configVars, interruptVars, dryVars>>
outsideConfig ==
    <<diffVars, runVars, fixVars, catalogVars, prefixVars, discoverVars, telemetryVars, refsVars, regenVars, interruptVars, dryVars>>
outsideProcess ==
    <<diffVars, fixVars, catalogVars, prefixVars, discoverVars, telemetryVars, refsVars, regenVars, configVars>>

---------------------------------------------------------------------------
(* Characters and strings                                                  *)

Digits == {"0", "1", "2", "3", "4", "5", "6", "7", "8", "9"}

DigitVal(ch) ==
    CASE ch = "0" -> 0 [] ch = "1" -> 1 [] ch = "2" -> 2 [] ch = "3" -> 3
      [] ch = "4" -> 4 [] ch = "5" -> 5 [] ch = "6" -> 6 [] ch = "7" -> 7
      [] ch = "8" -> 8 [] ch = "9" -> 9

DigitChar(d) ==
    CASE d = 0 -> "0" [] d = 1 -> "1" [] d = 2 -> "2" [] d = 3 -> "3"
      [] d = 4 -> "4" [] d = 5 -> "5" [] d = 6 -> "6" [] d = 7 -> "7"
      [] d = 8 -> "8" [] d = 9 -> "9"

\* str(n) for a natural number
RECURSIVE Dec(_)
Dec(n) == IF n < 10 THEN <<DigitChar(n)>>
          ELSE Dec(n \div 10) \o <<DigitChar(n % 10)>>

\* int(s) for a non-empty string of decimal digits
RECURSIVE ParseInt(_)
ParseInt(s) == IF Len(s) = 1 THEN DigitVal(s[1])
               ELSE 10 * ParseInt(SubSeq(s, 1, Len(s) - 1)) + DigitVal(s[Len(s)])

\* s.startswith(p)
StartsWith(s, p) == Len(s) >= Len(p) /\ SubSeq(s, 1, Len(p)) = p

\* whether p occurs in s at position i (1-based)
At(s, i, p) == i >= 1 /\ i + Len(p) - 1 <= Len(s) /\ SubSeq(s, i, i + Len(p) - 1) = p

\* the position after the longest run of characters of class cls starting at i
RECURSIVE SkipClass(_, _, _)
SkipClass(s, i, cls) ==
    IF i <= Len(s) /\ s[i] \in cls THEN SkipClass(s, i + 1, cls) ELSE i

---------------------------------------------------------------------------
(* ChangeFilter.get_changed_lines: the hunk-header parser                  *)

Paths == {"a.yml", "b.yml"}

\* `@@ -a[,b] +c[,d] @@tail` as git prints it; b and d are <<>> when the
\* count is omitted and <<n>> otherwise
FormatHunk(h) ==
    <<"@", "@", " ", "-">> \o Dec(h.a)
      \o (IF h.b = <<>> THEN <<>> ELSE <<",">> \o Dec(h.b[1]))
      \o <<" ", "+">> \o Dec(h.c)
      \o (IF h.d = <<>> THEN <<>> ELSE <<",">> \o Dec(h.d[1]))
      \o <<" ", "@", "@">> \o h.tail

\* one line of the diff output
DiffLine(r) == IF r.kind = "hunk" THEN FormatHunk(r) ELSE r.text

\* result.stdout.split("\n"): every line of the output ends with a newline,
\* so the split yields the lines and a final empty string
StdoutLines(recs) == [k \in 1..Len(recs) |-> DiffLine(recs[k])] \o << <<>> >>

\* re.match(r"@@ -\d+(?:,\d+)? \+(\d+)(?:,(\d+))? @@", line): the pair
\* <<group 1, group 2>> in a one-element sequence, or <<>> for no match.
\* A group that did not take part in the match is the empty string.
HunkMatch(line) ==
    IF ~At(line, 1, <<"@", "@", " ", "-">>) THEN <<>>
    ELSE
      LET p1 == SkipClass(line, 5, Digits)
          q1 == SkipClass(line, p1 + 1, Digits)
          p2 == IF p1 <= Len(line) /\ line[p1] = "," /\ q1 > p1 + 1 THEN q1 ELSE p1
          p3 == SkipClass(line, p2 + 2, Digits)
          q3 == SkipClass(line, p3 + 1, Digits)
          hasCount == p3 <= Len(line) /\ line[p3] = "," /\ q3 > p3 + 1
          p4 == IF hasCount THEN q3 ELSE p3
      IN  IF p1 > 5 /\ At(line, p2, <<" ", "+">>) /\ p3 > p2 + 2
             /\ At(line, p4, <<" ", "@", "@">>)
          THEN << <<SubSeq(line, p2 + 2, p3 - 1),
                    IF hasCount THEN SubSeq(line, p3 + 1, q3 - 1) ELSE <<>> >> >>
          ELSE <<>>

\* a parser whose range runs one line too far: range(start, start + count + 1)
HunkLinesOneTooFar(line) ==
    IF ~StartsWith(line, <<"@", "@">>) THEN {}
    ELSE LET m == HunkMatch(line)
         IN  IF m = <<>> THEN {}
             ELSE LET start == ParseInt(m[1][1])
                      count == IF m[1][2] # <<>> THEN ParseInt(m[1][2]) ELSE 1
                  IN  start .. (start + count)

\* the line numbers one line of the diff adds to `changed`
HunkLines(line) ==
    IF ~StartsWith(line, <<"@", "@">>) THEN {}
    ELSE LET m == HunkMatch(line)
         IN  IF m = <<>> THEN {}
             ELSE LET start == ParseInt(m[1][1])
                      count == IF m[1][2] # <<>> THEN ParseInt(m[1][2]) ELSE 1
                  IN  start .. (start + count - 1)

\* the loop over result.stdout.split("\n")
ParseDiff(lines) == UNION {HunkLines(lines[k]) : k \in 1..Len(lines)}

---------------------------------------------------------------------------
(* The diff of the repository and the calls on the filter                  *)

MaxDiffLines == 2

\* set(range(1, 100000)): the upper end of the fail-open range
FailOpenLimit == 100000

NoTail == <<>>
SectionTail == <<" ", "-", " ", "n", "a", "m", "e", ":">>

Hunk(a, b, c, d, tail) ==
    [kind |-> "hunk", a |-> a, b |-> b, c |-> c, d |-> d, tail |-> tail, text |-> <<>>]

Text(t) ==
    [kind |-> "text", a |-> 0, b |-> <<>>, c |-> 0, d |-> <<>>, tail |-> <<>>, text |-> t]

\* lines a `git diff --unified=0` prints: hunk headers with and without
\* counts, with one- and two-digit numbers, a pure deletion (count 0), a
\* header followed by its section heading, and lines that are no headers
DiffPool ==
    { Hunk(1, <<>>, 3, <<>>, NoTail),
      Hunk(1, <<2>>, 1, <<2>>, NoTail),
      Hunk(4, <<0>>, 10, <<12>>, SectionTail),
      Hunk(2, <<1>>, 2, <<0>>, NoTail),
      Text(<<"+", "@", "@", " ", "-", "1", " ", "+", "7", " ", "@", "@">>),
      Text(<<"+", "+", "+", " ", "b", "/", "x">>) }

TaggedPool == {[path |-> p, line |-> r] : p \in Paths, r \in DiffPool}

SeqsUpTo(S, n) == UNION {[1..k -> S] : k \in 0..n}

\* the records of the diff that belong to one path
RECURSIVE DiffFor(_, _)
DiffFor(diff, p) ==
    IF diff = <<>> THEN <<>>
    ELSE (IF Head(diff).path = p THEN <<Head(diff).line>> ELSE <<>>)
           \o DiffFor(Tail(diff), p)

\* what subprocess.run(["git", "diff", ...], check=True) can do: return the
\* output, raise CalledProcessError (git exits non-zero), or raise another
\* error (the git binary cannot be executed, the output cannot be decoded)
GitOutcomes == {"ok", "CalledProcessError", "OSError"}

NoQuery == [path |-> "", outcome |-> "none", called |-> FALSE, raised |-> FALSE, ret |-> {}]

\* ChangeFilter.get_changed_lines(file_path), given what the git invocation
\* would do; the result names the returned set and the cache afterwards
get_changed_lines(cache, diff, p, outcome) ==
    IF p \in DOMAIN cache
    THEN [cache |-> cache,
          q |-> [path |-> p, outcome |-> "cached", called |-> FALSE,
                 raised |-> FALSE, ret |-> cache[p]]]
    ELSE IF outcome = "ok"
    THEN LET changed == ParseDiff(StdoutLines(DiffFor(diff, p)))
         IN  [cache |-> [x \in DOMAIN cache \cup {p} |->
                            IF x = p THEN changed ELSE cache[x]],
              q |-> [path |-> p, outcome |-> "ok", called |-> TRUE,
                     raised |-> FALSE, ret |-> changed]]
    ELSE IF outcome = "CalledProcessError"
    THEN [cache |-> cache,
          q |-> [path |-> p, outcome |-> outcome, called |-> TRUE,
                 raised |-> FALSE, ret |-> 1 .. (FailOpenLimit - 1)]]
    ELSE [cache |-> cache,
          q |-> [path |-> p, outcome |-> outcome, called |-> TRUE,
                 raised |-> TRUE, ret |-> {}]]

\* ChangeFilter.should_fix_line, on the set the call returned
should_fix_line(ret, line_num) == line_num \in ret

DiffStart ==
    /\ repoDiff \in SeqsUpTo(TaggedPool, MaxDiffLines)
    /\ changed_lines_cache = <<>>
    /\ query = NoQuery
    /\ first_outcome = <<>>
    /\ repeated = FALSE

GetChangedLines ==
    /\ \E p \in Paths, outcome \in GitOutcomes :
          LET r == get_changed_lines(changed_lines_cache, repoDiff, p, outcome)
          IN  /\ changed_lines_cache' = r.cache
              /\ query' = r.q
              /\ repeated' = (p \in DOMAIN first_outcome)
              /\ first_outcome' =
                    IF p \in DOMAIN first_outcome \/ r.q.raised THEN first_outcome
                    ELSE [x \in DOMAIN first_outcome \cup {p} |->
                             IF x = p THEN r.q.outcome ELSE first_outcome[x]]
    /\ UNCHANGED <<repoDiff, outsideDiff>>

\* a new run of the script: a fresh filter object on the same repository
NewRun ==
    /\ changed_lines_cache' = <<>>
    /\ query' = NoQuery
    /\ first_outcome' = <<>>
    /\ repeated' = FALSE
    /\ UNCHANGED <<repoDiff, outsideDiff>>

---------------------------------------------------------------------------
(* The working tree, git's index and HEAD                                  *)
(*                                                                         *)
(* A file's content is the set of rules whose edits it holds; a path that  *)
(* does not exist in a tree has the content Absent.                        *)

NRules == 2

RuleIds == 1 .. NRules

Absent == {0}

\* paths in the order git lists them; the last one is not a YAML file
Files == <<"t1.yml", "t2.yml", "u.txt">>
FileSet == {Files[k] : k \in 1..Len(Files)}
YamlFiles == {"t1.yml", "t2.yml"}

\* the paths `git diff --name-only` prints: tracked paths whose content on
\* disk differs from the index
git_diff_names(wt, idx) == {f \in FileSet : idx[f] # Absent /\ wt[f] # idx[f]}

\* GitManager.has_changes / AnsibleLintFixer.check_git_changes
has_changes(wt, idx) == git_diff_names(wt, idx) # {}

\* GitManager.get_changed_files / AnsibleLintFixer.get_changed_files
get_changed_files(wt, idx) == SelectSeq(Files, LAMBDA f : f \in git_diff_names(wt, idx))

\* the paths whose index entry differs from HEAD (`git diff --cached --name-only`)
StagedPaths(idx, hd) == {f \in FileSet : idx[f] # hd[f]}

\* `git add <file>`
git_add(wt, idx, f) == [idx EXCEPT ![f] = wt[f]]

\* GitManager.add_files(files): `git add` file by file; failAt = k > 0 makes
\* the k-th invocation fail, the files before it stay staged
RECURSIVE add_files(_, _, _, _)
add_files(wt, idx, files, failAt) ==
    IF files = <<>> THEN [ok |-> TRUE, idx |-> idx]
    ELSE IF failAt = 1 THEN [ok |-> FALSE, idx |-> idx]
    ELSE add_files(wt, git_add(wt, idx, Head(files)), Tail(files),
                   IF failAt = 0 THEN 0 ELSE failAt - 1)

\* `git add .` from the top of the repository: every path on disk
git_add_all(wt, idx, fails) ==
    IF fails THEN [ok |-> FALSE, idx |-> idx] ELSE [ok |-> TRUE, idx |-> wt]

NewEdits(idx, hd) ==
    UNION {IF hd[f] = Absent THEN idx[f] ELSE idx[f] \ hd[f] : f \in StagedPaths(idx, hd)}

\* `git commit -F <file>`: fails when nothing is staged, and may fail for
\* reasons of its own (a hook, no identity); on success HEAD takes the index
git_commit(idx, hd, log, rule, fails) ==
    IF fails \/ idx = hd THEN [ok |-> FALSE, head |-> hd, commits |-> log]
    ELSE [ok |-> TRUE, head |-> idx,
          commits |-> Append(log, [rule |-> rule, paths |-> StagedPaths(idx, hd),
                                   edits |-> NewEdits(idx, hd)])]

\* what `ansible-lint --fix=<rule>` leaves on disk: the rule's edits in the files it touched
tool_edit(wt, rule, touched) ==
    [f \in FileSet |-> IF f \in touched THEN wt[f] \cup {rule} ELSE wt[f]]

\* AnsibleLintProcessor.run_fix: success unless the tool timed out; the
\* exit code is not looked at
run_fix(tool, exitcode) == tool # "timeout"

\* UserInterface.prompt_user with auto-accept
prompt_user(auto, answer) == IF auto THEN TRUE ELSE answer

ExitCodes == {0, 2}
ToolOutcomes == {"ran", "timeout"}

\* the choices the environment makes while one rule is processed
Envs ==
    [tool : ToolOutcomes, exitcode : ExitCodes, touched : SUBSET YamlFiles,
     answer : BOOLEAN, addFailAt : 0 .. Cardinality(YamlFiles),
     commitFails : BOOLEAN, goOn : BOOLEAN]

NoRule == 0

NoLast ==
    [rule |-> NoRule, tool |-> "none", decision |-> "none", changed |-> {},
     addOk |-> FALSE, commitOk |-> FALSE,
     preWt |-> <<>>, toolWt |-> <<>>, preIdx |-> <<>>, addIdx |-> <<>>, preHead |-> <<>>,
     preCommits |-> 0]

---------------------------------------------------------------------------
(* ansible-lint-comprehensive-fixer.py: ComprehensiveLintFixer             *)

Outcome(ret, wt, idx, hd, log, printed, decision, changed, addOk, commitOk, addIdx) ==
    [ret |-> ret, wt |-> wt, idx |-> idx, head |-> hd, commits |-> log,
     printed |-> printed, decision |-> decision, changed |-> changed,
     addOk |-> addOk, commitOk |-> commitOk, addIdx |-> addIdx]

Range(seq) == {seq[k] : k \in 1..Len(seq)}

\* a _process_single_rule that stages the changed files before it asks
process_single_rule_staging_first(wt, idx, hd, log, rule, auto, e) ==
    LET wt1 == tool_edit(wt, rule, e.touched)
    IN  IF ~run_fix(e.tool, e.exitcode) \/ ~has_changes(wt1, idx)
        THEN Outcome(FALSE, wt1, idx, hd, log, {}, "none", {}, FALSE, FALSE, idx)
        ELSE
          LET changed == get_changed_files(wt1, idx)
              a == add_files(wt1, idx, changed, e.addFailAt)
          IN  IF ~prompt_user(auto, e.answer)
              THEN Outcome(TRUE, wt1, a.idx, hd, log, {"applied", "skipped"},
                           "decline", Range(changed), FALSE, FALSE, idx)
              ELSE IF ~a.ok
              THEN Outcome(FALSE, wt1, a.idx, hd, log, {"applied", "stage_failed"},
                           "accept", Range(changed), FALSE, FALSE, a.idx)
              ELSE
                LET c == git_commit(a.idx, hd, log, rule, e.commitFails)
                IN  Outcome(c.ok, wt1, a.idx, c.head, c.commits,
                            {"applied", IF c.ok THEN "committed" ELSE "commit_failed"},
                            "accept", Range(changed), TRUE, c.ok, a.idx)

\* ComprehensiveLintFixer._process_single_rule
process_single_rule(wt, idx, hd, log, rule, auto, e) ==
    LET wt1 == tool_edit(wt, rule, e.touched)
    IN  IF ~run_fix(e.tool, e.exitcode)
        THEN Outcome(FALSE, wt1, idx, hd, log, {}, "none", {}, FALSE, FALSE, idx)
        ELSE IF ~has_changes(wt1, idx)
        THEN Outcome(FALSE, wt1, idx, hd, log, {}, "none", {}, FALSE, FALSE, idx)
        ELSE
          LET changed == get_changed_files(wt1, idx)
          IN  IF prompt_user(auto, e.answer)
              THEN
                LET a == add_files(wt1, idx, changed, e.addFailAt)
                IN  IF ~a.ok
                    THEN Outcome(FALSE, wt1, a.idx, hd, log, {"applied", "stage_failed"},
                                 "accept", Range(changed), FALSE, FALSE, a.idx)
                    ELSE
                      LET c == git_commit(a.idx, hd, log, rule, e.commitFails)
                      IN  Outcome(c.ok, wt1, a.idx, c.head, c.commits,
                                  {"applied", IF c.ok THEN "committed" ELSE "commit_failed"},
                                  "accept", Range(changed), TRUE, c.ok, a.idx)
              ELSE Outcome(TRUE, wt1, idx, hd, log, {"applied", "skipped"},
                           "decline", Range(changed), FALSE, FALSE, idx)

\* the kinds of command one processed rule made the process run
CommandsOf(r) ==
    {"fix"} \cup (IF r.decision = "accept" THEN {"add"} ELSE {})
            \cup (IF r.decision = "accept" /\ r.addOk THEN {"commit"} ELSE {})

\* the ghost record of one processed rule
LastOf(rule, e, r) ==
    [rule |-> rule, tool |-> e.tool, decision |-> r.decision, changed |-> r.changed,
     addOk |-> r.addOk, commitOk |-> r.commitOk,
     preWt |-> worktree, toolWt |-> tool_edit(worktree, rule, e.touched),
     preIdx |-> index, addIdx |-> r.addIdx, preHead |-> headTree,
     preCommits |-> Len(commits)]

\* one iteration of the loop of ComprehensiveLintFixer.process_rules
ProcessRuleComprehensive ==
    /\ script = "comprehensive"
    /\ phase = "rules"
    /\ \E e \in Envs :
         LET rule == pos + 1
             r == process_single_rule(worktree, index, headTree, commits, rule,
                                      auto_accept, e)
             failed == ~r.ret /\ has_changes(r.wt, r.idx)
             nothing == ~r.ret /\ ~has_changes(r.wt, r.idx)
         IN  /\ worktree' = r.wt
             /\ index' = r.idx
             /\ headTree' = r.head
             /\ commits' = r.commits
             /\ processed_rules' = IF r.ret THEN processed_rules \cup {rule}
                                   ELSE processed_rules
             /\ failed_rules' = IF failed THEN failed_rules \cup {rule} ELSE failed_rules
             /\ msgs' = [msgs EXCEPT ![rule] =
                            r.printed \cup (IF nothing THEN {"no_changes"} ELSE {})]
             /\ pos' = pos + 1
             /\ phase' = IF pos + 1 < NRules /\ prompt_user(auto_accept, e.goOn)
                         THEN "rules" ELSE "done"
             /\ last' = LastOf(rule, e, r)
             /\ commands' = commands \cup CommandsOf(r)
    /\ UNCHANGED <<script, auto_accept, interruption, dry_run, run_mode, outsideProcess>>

---------------------------------------------------------------------------
(* ansible-lint-fix-rules.py: AnsibleLintFixer                             *)

\* AnsibleLintFixer.create_commit(rule): `git add .`, then `git commit`
create_commit(wt, idx, hd, log, rule, e) ==
    LET a == git_add_all(wt, idx, e.addFailAt # 0)
    IN  IF ~a.ok THEN [ok |-> FALSE, addOk |-> FALSE, idx |-> a.idx, head |-> hd,
                       commits |-> log]
        ELSE LET c == git_commit(a.idx, hd, log, rule, e.commitFails)
             IN  [ok |-> c.ok, addOk |-> TRUE, idx |-> a.idx, head |-> c.head,
                  commits |-> c.commits]

\* AnsibleLintFixer.run_ansible_lint_fix: whether the rule counts as applied
run_ansible_lint_fix(wt1, idx, tool, exitcode) ==
    IF tool = "timeout" THEN FALSE ELSE has_changes(wt1, idx)

\* the body of the loop of AnsibleLintFixer.process_rules for one rule
fix_rules_step(wt, idx, hd, log, rule, auto, e) ==
    LET wt1 == tool_edit(wt, rule, e.touched)
    IN  IF ~run_ansible_lint_fix(wt1, idx, e.tool, e.exitcode)
        THEN Outcome(FALSE, wt1, idx, hd, log, {"no_changes"}, "none", {}, FALSE,
                     FALSE, idx)
        ELSE
          LET changed == get_changed_files(wt1, idx)
          IN  IF auto \/ e.answer
              THEN LET c == create_commit(wt1, idx, hd, log, rule, e)
                   IN  Outcome(TRUE, wt1, c.idx, c.head, c.commits,
                               {"applied", IF c.ok THEN "committed" ELSE "commit_failed"},
                               "accept", Range(changed), c.addOk, c.ok, c.idx)
              ELSE Outcome(TRUE, wt1, idx, hd, log, {"applied", "skipped"},
                           "decline", Range(changed), FALSE, FALSE, idx)

ProcessRuleFixRules ==
    /\ script = "fixrules"
    /\ phase = "rules"
    /\ \E e \in Envs :
         LET rule == pos + 1
             r == fix_rules_step(worktree, index, headTree, commits, rule,
                                 auto_accept, e)
             stop == r.ret /\ pos + 1 < NRules /\ ~auto_accept /\ ~e.goOn
         IN  /\ worktree' = r.wt
             /\ index' = r.idx
             /\ headTree' = r.head
             /\ commits' = r.commits
             /\ processed_rules' = IF r.ret THEN processed_rules \cup {rule}
                                   ELSE processed_rules
             /\ failed_rules' = IF r.decision = "accept" /\ ~r.commitOk
                                THEN failed_rules \cup {rule} ELSE failed_rules
             /\ msgs' = [msgs EXCEPT ![rule] = r.printed]
             /\ pos' = pos + 1
             /\ phase' = IF pos + 1 < NRules /\ ~stop THEN "rules" ELSE "done"
             /\ last' = LastOf(rule, e, r)
             /\ commands' = commands \cup CommandsOf(r)
    /\ UNCHANGED <<script, auto_accept, interruption, dry_run, run_mode, outsideProcess>>


---------------------------------------------------------------------------
(* A run interrupted from outside (SIGINT, raised as KeyboardInterrupt)    *)

NoInterruption == [at |-> "none", caught |-> FALSE, status |-> 0]

\* where a run can be waiting when the interruption arrives
InterruptPoints == {"fix", "commit_prompt", "continue_prompt"}

\* ansible-lint-comprehensive-fixer.py: nothing between main() and the
\* subprocess call or the prompt handles KeyboardInterrupt, so it reaches the
\* handler of main(), which prints and calls sys.exit(1)
InterruptComprehensive ==
    /\ script = "comprehensive"
    /\ phase = "rules"
    /\ \E e \in Envs, point \in InterruptPoints :
         LET rule == pos + 1
             wt1 == tool_edit(worktree, rule, e.touched)
             r == process_single_rule(worktree, index, headTree, commits, rule,
                                      auto_accept, e)
             failed == ~r.ret /\ has_changes(r.wt, r.idx)
             nothing == ~r.ret /\ ~has_changes(r.wt, r.idx)
             asked == point = "continue_prompt"
         IN  /\ point = "commit_prompt"
                  => run_fix(e.tool, e.exitcode) /\ has_changes(wt1, index) /\ ~auto_accept
             /\ point = "continue_prompt" => pos + 1 < NRules /\ ~auto_accept
             /\ worktree' = wt1
             /\ index' = IF asked THEN r.idx ELSE index
             /\ headTree' = IF asked THEN r.head ELSE headTree
             /\ commits' = IF asked THEN r.commits ELSE commits
             /\ processed_rules' = IF asked /\ r.ret THEN processed_rules \cup {rule}
                                   ELSE processed_rules
             /\ failed_rules' = IF asked /\ failed THEN failed_rules \cup {rule}
                                ELSE failed_rules
             /\ msgs' = [msgs EXCEPT ![rule] =
                            IF asked
                            THEN r.printed \cup (IF nothing THEN {"no_changes"} ELSE {})
                            ELSE IF point = "commit_prompt" THEN {"applied"} ELSE {}]
             /\ pos' = IF asked THEN pos + 1 ELSE pos
             /\ last' = IF asked THEN LastOf(rule, e, r) ELSE last
             /\ phase' = "interrupted"
             /\ commands' = commands \cup (IF asked THEN CommandsOf(r) ELSE {"fix"})
             /\ interruption' = [at |-> point, caught |-> TRUE, status |-> 1]
    /\ UNCHANGED <<script, auto_accept, dry_run, run_mode, outsideProcess>>

\* ansible-lint-fix-rules.py: the prompts of process_rules sit in
\* `try: ... except (EOFError, KeyboardInterrupt): print(...); return`, so
\* process_rules returns and main() ends normally, with exit status 0;
\* run_ansible_lint_fix handles only TimeoutExpired and CalledProcessError
\* and main() handles nothing, so an interruption of the fix invocation
\* ends the interpreter with a traceback, as killed by SIGINT (status 130)
InterruptFixRules ==
    /\ script = "fixrules"
    /\ phase = "rules"
    /\ \E e \in Envs, point \in InterruptPoints :
         LET rule == pos + 1
             wt1 == tool_edit(worktree, rule, e.touched)
             r == fix_rules_step(worktree, index, headTree, commits, rule,
                                 auto_accept, e)
             asked == point = "continue_prompt"
             applied == point # "fix"
         IN  /\ point = "commit_prompt"
                  => run_ansible_lint_fix(wt1, index, e.tool, e.exitcode) /\ ~auto_accept
             /\ point = "continue_prompt" => r.ret /\ pos + 1 < NRules /\ ~auto_accept
             /\ worktree' = wt1
             /\ index' = IF asked THEN r.idx ELSE index
             /\ headTree' = IF asked THEN r.head ELSE headTree
             /\ commits' = IF asked THEN r.commits ELSE commits
             /\ processed_rules' = IF applied THEN processed_rules \cup {rule}
                                   ELSE processed_rules
             /\ failed_rules' = IF asked /\ r.decision = "accept" /\ ~r.commitOk
                                THEN failed_rules \cup {rule} ELSE failed_rules
             /\ msgs' = [msgs EXCEPT ![rule] =
                            IF asked THEN r.printed
                            ELSE IF applied THEN {"applied"} ELSE {}]
             /\ pos' = IF asked THEN pos + 1 ELSE pos
             /\ last' = IF asked THEN LastOf(rule, e, r) ELSE last
             /\ phase' = "interrupted"
             /\ commands' = commands \cup (IF asked THEN CommandsOf(r) ELSE {"fix"})
             /\ interruption' = IF applied
                                THEN [at |-> point, caught |-> TRUE, status |-> 0]
                                ELSE [at |-> point, caught |-> FALSE, status |-> 130]
    /\ UNCHANGED <<script, auto_accept, dry_run, run_mode, outsideProcess>>

---------------------------------------------------------------------------
(* main() and what it dispatches to, with and without --dry-run            *)

\* the edits of `ansible-lint --fix=<tag>` and of the hand-written fixes
TagEdit == NRules + 1
ManualEdit == NRules + 2

RunModes == {"rules", "tag", "manual"}

\* a process_rules that shows the dry-run summary and goes on to ask
process_rules_entry_asking(dry, auto, confirm) ==
    IF prompt_user(auto, confirm) THEN "rules" ELSE "done"

\* process_rules up to its loop, in both orchestrators: in dry-run mode the
\* commands that would be run are printed and the method returns; otherwise
\* the loop is entered once the user has confirmed
process_rules_entry(dry, auto, confirm) ==
    IF dry THEN "done"
    ELSE IF prompt_user(auto, confirm) THEN "rules" ELSE "done"

\* ComprehensiveLintFixer.process_rules / AnsibleLintFixer.process_rules,
\* from the listing of the fixable rules to the confirmation
ProcessRules ==
    /\ script \in {"comprehensive", "fixrules"}
    /\ run_mode = "rules"
    /\ phase = "start"
    /\ \E confirm \in BOOLEAN :
         phase' = process_rules_entry(dry_run, auto_accept, confirm)
    /\ commands' = commands \cup {"list"}
    /\ UNCHANGED <<script, auto_accept, worktree, index, headTree, commits, pos,
                   processed_rules, failed_rules, msgs, last>>
    /\ UNCHANGED <<interruption, dry_run, run_mode, outsideProcess>>

\* process_by_tag of either orchestrator (the hand-written fixes that the
\* comprehensive script can append are not enabled): an unknown tag and
\* dry-run mode return before the confirmation; then the fix of the tag is
\* run and its changes are committed as those of a rule are
process_by_tag(which, wt, idx, hd, log, found, dry, auto, confirm, e) ==
    IF ~found \/ dry \/ ~prompt_user(auto, confirm)
    THEN [ran |-> FALSE,
          r |-> Outcome(FALSE, wt, idx, hd, log, {}, "none", {}, FALSE, FALSE, idx)]
    ELSE [ran |-> TRUE,
          r |-> IF which = "comprehensive"
                THEN process_single_rule(wt, idx, hd, log, TagEdit, auto, e)
                ELSE fix_rules_step(wt, idx, hd, log, TagEdit, auto, e)]

ProcessByTag ==
    /\ script \in {"comprehensive", "fixrules"}
    /\ run_mode = "tag"
    /\ phase = "start"
    /\ \E found \in BOOLEAN, confirm \in BOOLEAN, e \in Envs :
         LET t == process_by_tag(script, worktree, index, headTree, commits, found,
                                 dry_run, auto_accept, confirm, e)
         IN  /\ worktree' = t.r.wt
             /\ index' = t.r.idx
             /\ headTree' = t.r.head
             /\ commits' = t.r.commits
             /\ commands' = commands \cup {"list"}
                                     \cup (IF t.ran THEN CommandsOf(t.r) ELSE {})
    /\ phase' = "done"
    /\ UNCHANGED <<script, auto_accept, pos, processed_rules, failed_rules, msgs, last>>
    /\ UNCHANGED <<interruption, dry_run, run_mode, outsideProcess>>

\* fix_ansible_lint.py, main(): every file that fix_file reports as modified
\* is written back, or, in dry-run mode, shown as a diff
write_modified(wt, modified, dry) ==
    IF dry THEN wt
    ELSE [f \in FileSet |-> IF f \in modified THEN wt[f] \cup {ManualEdit} ELSE wt[f]]

FixAnsibleLintMain ==
    /\ script = "fix_ansible_lint"
    /\ run_mode = "manual"
    /\ phase = "start"
    /\ \E modified \in SUBSET YamlFiles :
         /\ worktree' = write_modified(worktree, modified, dry_run)
         /\ commands' = commands \cup (IF modified # {} /\ ~dry_run THEN {"write"} ELSE {})
    /\ phase' = "done"
    /\ UNCHANGED <<script, auto_accept, index, headTree, commits, pos,
                   processed_rules, failed_rules, msgs, last>>
    /\ UNCHANGED <<interruption, dry_run, run_mode, outsideProcess>>
---------------------------------------------------------------------------
(* ManualFixProcessor / AnsibleFixer: the hand-written text transforms     *)

\* the characters \s matches within a line
WS == {" ", "\t"}

Lower == {"a", "b", "c", "d", "e", "f", "g", "h", "i", "j", "k", "l", "m",
          "n", "o", "p", "q", "r", "s", "t", "u", "v", "w", "x", "y", "z"}

\* s[i..] (the empty string when i is past the end)
From(s, i) == SubSeq(s, i, Len(s))

\* s.find(p, i): the least position >= i at which p occurs in s, or 0
RECURSIVE FindStr(_, _, _)
FindStr(s, i, p) ==
    IF i > Len(s) THEN 0
    ELSE IF At(s, i, p) THEN i ELSE FindStr(s, i + 1, p)

\* `p in s`
Contains(s, p) == FindStr(s, 1, p) # 0

\* len(line) - len(line.lstrip())
IndentOf(line) == SkipClass(line, 1, WS) - 1

\* line.strip() is not empty
HasText(line) == SkipClass(line, 1, WS) <= Len(line)

\* ManualFixProcessor.should_fix_line: every line without a change filter,
\* else the lines of the file's changed-line set
should_fix(filtered, changed, line_num) ==
    IF ~filtered THEN TRUE ELSE should_fix_line(changed, line_num)

\* ---- fix_yaml_brackets

\* re.sub(r"\[\s+", "[", s)
RECURSIVE SubOpenBracket(_, _)
SubOpenBracket(s, i) ==
    IF i > Len(s) THEN <<>>
    ELSE IF s[i] = "[" /\ SkipClass(s, i + 1, WS) > i + 1
         THEN <<"[">> \o SubOpenBracket(s, SkipClass(s, i + 1, WS))
         ELSE <<s[i]>> \o SubOpenBracket(s, i + 1)

\* re.sub(r"\s+\]", "]", s)
RECURSIVE SubCloseBracket(_, _)
SubCloseBracket(s, i) ==
    IF i > Len(s) THEN <<>>
    ELSE LET j == SkipClass(s, i, WS)
         IN  IF j > i /\ j <= Len(s) /\ s[j] = "]"
             THEN <<"]">> \o SubCloseBracket(s, j + 1)
             ELSE <<s[i]>> \o SubCloseBracket(s, i + 1)

BracketsLine(line) == SubCloseBracket(SubOpenBracket(line, 1), 1)

\* ---- fix_yaml_truthy

\* whether r":\s+<word>\s*$" matches at position i
TruthyAt(s, i, word) ==
    /\ s[i] = ":"
    /\ LET j == SkipClass(s, i + 1, WS)
       IN  /\ j > i + 1
           /\ At(s, j, word)
           /\ SkipClass(s, j + Len(word), WS) = Len(s) + 1

\* the least position >= i at which the pattern matches, or 0
RECURSIVE FindTruthy(_, _, _)
FindTruthy(s, i, word) ==
    IF i > Len(s) THEN 0
    ELSE IF TruthyAt(s, i, word) THEN i ELSE FindTruthy(s, i + 1, word)

\* re.sub(r":\s+<word>\s*$", repl, s)
SubTruthy(s, word, repl) ==
    LET i == FindTruthy(s, 1, word)
    IN  IF i = 0 THEN s ELSE SubSeq(s, 1, i - 1) \o repl

ColonTrue == <<":", " ", "t", "r", "u", "e">>
ColonFalse == <<":", " ", "f", "a", "l", "s", "e">>

TruthyLine(line) ==
    LET s1 == SubTruthy(line, <<"y", "e", "s">>, ColonTrue)
        s2 == SubTruthy(s1, <<"n", "o">>, ColonFalse)
        s3 == SubTruthy(s2, <<"Y", "e", "s">>, ColonTrue)
        s4 == SubTruthy(s3, <<"N", "o">>, ColonFalse)
        s5 == SubTruthy(s4, <<"Y", "E", "S">>, ColonTrue)
        s6 == SubTruthy(s5, <<"N", "O">>, ColonFalse)
        s7 == SubTruthy(s6, <<"o", "n">>, ColonTrue)
    IN  SubTruthy(s7, <<"o", "f", "f">>, ColonFalse)

\* ---- fix_jinja_spacing

NotPipeOrSpace(ch) == ch # "|" /\ ch \notin WS

\* re.sub(r"([^|\s])\|([^|\s])", r"\1 | \2", s)
RECURSIVE SubBarePipe(_, _)
SubBarePipe(s, i) ==
    IF i > Len(s) THEN <<>>
    ELSE IF i + 2 <= Len(s) /\ NotPipeOrSpace(s[i]) /\ s[i + 1] = "|"
            /\ NotPipeOrSpace(s[i + 2])
         THEN <<s[i], " ", "|", " ", s[i + 2]>> \o SubBarePipe(s, i + 3)
         ELSE <<s[i]>> \o SubBarePipe(s, i + 1)

\* re.sub(r"\s+\|\s+", " | ", s)
RECURSIVE SubWidePipe(_, _)
SubWidePipe(s, i) ==
    IF i > Len(s) THEN <<>>
    ELSE LET j == SkipClass(s, i, WS)
             k == SkipClass(s, j + 1, WS)
         IN  IF j > i /\ j <= Len(s) /\ s[j] = "|" /\ k > j + 1
             THEN <<" ", "|", " ">> \o SubWidePipe(s, k)
             ELSE <<s[i]>> \o SubWidePipe(s, i + 1)

\* the two substitutions on an expression or a condition
PipeSpacing(s) == SubWidePipe(SubBarePipe(s, 1), 1)

\* re.sub(r"\{\{(.+?)\}\}", fix_jinja_expr, s): the shortest expression of
\* at least one character between {{ and }}
RECURSIVE SubJinjaExpr(_, _)
SubJinjaExpr(s, i) ==
    IF i > Len(s) THEN <<>>
    ELSE LET close == FindStr(s, i + 3, <<"}", "}">>)
         IN  IF At(s, i, <<"{", "{">>) /\ close # 0
             THEN <<"{", "{">> \o PipeSpacing(SubSeq(s, i + 2, close - 1))
                    \o <<"}", "}">> \o SubJinjaExpr(s, close + 2)
             ELSE <<s[i]>> \o SubJinjaExpr(s, i + 1)

\* re.match(r"\s*(when|changed_when|failed_when):", line)
IsConditionLine(line) ==
    LET j == SkipClass(line, 1, WS)
    IN  \/ At(line, j, <<"w", "h", "e", "n", ":">>)
        \/ At(line, j, <<"c", "h", "a", "n", "g", "e", "d", "_", "w", "h", "e", "n", ":">>)
        \/ At(line, j, <<"f", "a", "i", "l", "e", "d", "_", "w", "h", "e", "n", ":">>)

JinjaLine(line) ==
    IF IsConditionLine(line)
    THEN \* parts = line.split(":", 1); the match guarantees a colon
         LET c == FindStr(line, 1, <<":">>)
         IN  SubSeq(line, 1, c - 1) \o <<":">> \o PipeSpacing(From(line, c + 1))
    ELSE SubJinjaExpr(line, 1)

\* ---- fix_role_path

Quotes == {"\"", "'"}

\* the position after the longest run of characters outside cls starting at i
RECURSIVE SkipUntil(_, _, _)
SkipUntil(s, i, cls) ==
    IF i <= Len(s) /\ s[i] \notin cls THEN SkipUntil(s, i + 1, cls) ELSE i

RolesPrefix == <<".", ".", "/", "r", "o", "l", "e", "s", "/">>

\* where the role name starts if r"(role:|name:)\s*["']?\.\./roles/" (with
\* the optional quote only when quoted) matches at position i, else 0
RolePrefixAt(s, i, quoted) ==
    IF ~(At(s, i, <<"r", "o", "l", "e", ":">>) \/ At(s, i, <<"n", "a", "m", "e", ":">>)) THEN 0
    ELSE LET j == SkipClass(s, i + 5, WS)
             q == IF quoted /\ j <= Len(s) /\ s[j] \in Quotes THEN j + 1 ELSE j
         IN  IF At(s, q, RolesPrefix) THEN q + Len(RolesPrefix) ELSE 0

\* re.sub of one of the two role-path patterns with r"\1 \2"
RECURSIVE SubRolePath(_, _, _, _)
SubRolePath(s, i, quoted, stop) ==
    IF i > Len(s) THEN <<>>
    ELSE LET n == RolePrefixAt(s, i, quoted)
             e == SkipUntil(s, n, stop)
         IN  IF n # 0 /\ e > n
             THEN SubSeq(s, i, i + 4) \o <<" ">> \o SubSeq(s, n, e - 1)
                    \o SubRolePath(s, e, quoted, stop)
             ELSE <<s[i]>> \o SubRolePath(s, i + 1, quoted, stop)

RolePathLine(line) ==
    IF Contains(line, <<"r", "o", "l", "e", ":">>) \/ Contains(line, <<"n", "a", "m", "e", ":">>)
    THEN SubRolePath(SubRolePath(line, 1, TRUE, WS \cup Quotes), 1, FALSE, WS)
    ELSE line

\* ---- the line-by-line transforms

\* fix_yaml_brackets: for i, line in enumerate(lines), the lines should_fix_line admits
fix_yaml_brackets(lines, filtered, changed) ==
    [n \in 1..Len(lines) |->
        IF should_fix(filtered, changed, n) THEN BracketsLine(lines[n]) ELSE lines[n]]

\* fix_yaml_truthy: for i, line in enumerate(lines), the lines should_fix_line admits
fix_yaml_truthy(lines, filtered, changed) ==
    [n \in 1..Len(lines) |->
        IF should_fix(filtered, changed, n) THEN TruthyLine(lines[n]) ELSE lines[n]]

\* fix_jinja_spacing: for i, line in enumerate(lines), the lines should_fix_line admits
fix_jinja_spacing(lines, filtered, changed) ==
    [n \in 1..Len(lines) |->
        IF should_fix(filtered, changed, n) THEN JinjaLine(lines[n]) ELSE lines[n]]

\* fix_role_path: for i, line in enumerate(lines), the lines should_fix_line admits
fix_role_path(lines, filtered, changed) ==
    [n \in 1..Len(lines) |->
        IF should_fix(filtered, changed, n) THEN RolePathLine(lines[n]) ELSE lines[n]]

\* ---- fix_fqcn

BuiltinModules ==
    {
      <<"a", "p", "t">>,
      <<"a", "p", "t", "_", "k", "e", "y">>,
      <<"a", "p", "t", "_", "r", "e", "p", "o", "s", "i", "t", "o", "r", "y">>,
      <<"a", "s", "s", "e", "m", "b", "l", "e">>,
      <<"a", "s", "s", "e", "r", "t">>,
      <<"a", "s", "y", "n", "c", "_", "s", "t", "a", "t", "u", "s">>,
      <<"b", "l", "o", "c", "k", "i", "n", "f", "i", "l", "e">>,
      <<"c", "o", "m", "m", "a", "n", "d">>,
      <<"c", "o", "p", "y">>,
      <<"d", "e", "b", "u", "g">>,
      <<"d", "n", "f">>,
      <<"f", "a", "i", "l">>,
      <<"f", "e", "t", "c", "h">>,
      <<"f", "i", "l", "e">>,
      <<"f", "i", "n", "d">>,
      <<"g", "e", "t", "_", "u", "r", "l">>,
      <<"g", "i", "t">>,
      <<"g", "r", "o", "u", "p">>,
      <<"h", "o", "s", "t", "n", "a", "m", "e">>,
      <<"i", "m", "p", "o", "r", "t", "_", "p", "l", "a", "y", "b", "o", "o", "k">>,
      <<"i", "m", "p", "o", "r", "t", "_", "r", "o", "l", "e">>,
      <<"i", "m", "p", "o", "r", "t", "_", "t", "a", "s", "k", "s">>,
      <<"i", "n", "c", "l", "u", "d", "e">>,
      <<"i", "n", "c", "l", "u", "d", "e", "_", "r", "o", "l", "e">>,
      <<"i", "n", "c", "l", "u", "d", "e", "_", "t", "a", "s", "k", "s">>,
      <<"i", "n", "c", "l", "u", "d", "e", "_", "v", "a", "r", "s">>,
      <<"l", "i", "n", "e", "i", "n", "f", "i", "l", "e">>,
      <<"m", "e", "t", "a">>,
      <<"p", "a", "c", "k", "a", "g", "e">>,
      <<"p", "a", "u", "s", "e">>,
      <<"p", "i", "n", "g">>,
      <<"p", "i", "p">>,
      <<"r", "a", "w">>,
      <<"r", "e", "b", "o", "o", "t">>,
      <<"r", "e", "p", "l", "a", "c", "e">>,
      <<"r", "p", "m", "_", "k", "e", "y">>,
      <<"s", "c", "r", "i", "p", "t">>,
      <<"s", "e", "r", "v", "i", "c", "e">>,
      <<"s", "e", "r", "v", "i", "c", "e", "_", "f", "a", "c", "t", "s">>,
      <<"s", "e", "t", "_", "f", "a", "c", "t">>,
      <<"s", "e", "t", "u", "p">>,
      <<"s", "h", "e", "l", "l">>,
      <<"s", "l", "u", "r", "p">>,
      <<"s", "t", "a", "t">>,
      <<"s", "y", "s", "t", "e", "m", "d">>,
      <<"s", "y", "s", "c", "t", "l">>,
      <<"t", "e", "m", "p", "l", "a", "t", "e">>,
      <<"u", "n", "a", "r", "c", "h", "i", "v", "e">>,
      <<"u", "r", "i">>,
      <<"u", "s", "e", "r">>,
      <<"w", "a", "i", "t", "_", "f", "o", "r">>,
      <<"w", "a", "i", "t", "_", "f", "o", "r", "_", "c", "o", "n", "n", "e", "c", "t", "i", "o", "n">>,
      <<"y", "u", "m">>,
      <<"y", "u", "m", "_", "r", "e", "p", "o", "s", "i", "t", "o", "r", "y">> }

DockerModules ==
    {
      <<"d", "o", "c", "k", "e", "r", "_", "c", "o", "m", "p", "o", "s", "e">>,
      <<"d", "o", "c", "k", "e", "r", "_", "c", "o", "n", "t", "a", "i", "n", "e", "r">>,
      <<"d", "o", "c", "k", "e", "r", "_", "i", "m", "a", "g", "e">>,
      <<"d", "o", "c", "k", "e", "r", "_", "n", "e", "t", "w", "o", "r", "k">>,
      <<"d", "o", "c", "k", "e", "r", "_", "v", "o", "l", "u", "m", "e">> }

PosixModules ==
    {
      <<"s", "y", "n", "c", "h", "r", "o", "n", "i", "z", "e">>,
      <<"m", "o", "u", "n", "t">>,
      <<"s", "e", "b", "o", "o", "l", "e", "a", "n">>,
      <<"s", "e", "l", "i", "n", "u", "x">> }

\* FQCN_MAP: the short module names and their collections
InFqcnMap(module) == module \in BuiltinModules \cup DockerModules \cup PosixModules

FqcnOf(module) ==
    (IF module \in BuiltinModules THEN <<"a", "n", "s", "i", "b", "l", "e", ".", "b", "u", "i", "l", "t", "i", "n", ".">>
     ELSE IF module \in DockerModules THEN <<"c", "o", "m", "m", "u", "n", "i", "t", "y", ".", "d", "o", "c", "k", "e", "r", ".">>
     ELSE <<"a", "n", "s", "i", "b", "l", "e", ".", "p", "o", "s", "i", "x", ".">>) \o module

\* re.match(r"\s*-\s+name:", line)
IsTaskStart(line) ==
    LET w == SkipClass(line, 1, WS)
        x == SkipClass(line, w + 1, WS)
    IN  At(line, w, <<"-">>) /\ x > w + 1 /\ At(line, x, <<"n", "a", "m", "e", ":">>)

\* re.match(r"\s*-\s+(name|hosts):", line)
IsTaskOrPlay(line) ==
    LET w == SkipClass(line, 1, WS)
        x == SkipClass(line, w + 1, WS)
    IN  At(line, w, <<"-">>) /\ x > w + 1
          /\ (At(line, x, <<"n", "a", "m", "e", ":">>) \/ At(line, x, <<"h", "o", "s", "t", "s", ":">>))

\* re.match(r"^(\s*-?\s*)([a-z_]+)(\s*:.*)", line), and the same pattern
\* without the dash: the end of group 1 and of group 2, or <<>>
ModuleMatch(line, dash) ==
    LET w == SkipClass(line, 1, WS)
        d == IF dash /\ At(line, w, <<"-">>) THEN w + 1 ELSE w
        b == SkipClass(line, d, WS)
        m == SkipClass(line, b, Lower \cup {"_"})
        c == SkipClass(line, m, WS)
    IN  IF m > b /\ At(line, c, <<":">>) THEN <<b, m>> ELSE <<>>

\* the body of the loop of fix_fqcn from line i on (i counts from 1,
\* task_start_line from 0 as in the source)
RECURSIVE FqcnLoop(_, _, _, _, _, _)
FqcnLoop(lines, i, in_task, task_start_line, filtered, changed) ==
    IF i > Len(lines) THEN lines
    ELSE
      LET line == lines[i]
      IN  IF IsTaskStart(line)
          THEN FqcnLoop(lines, i + 1, TRUE, i - 1, filtered, changed)
          ELSE IF ~in_task
          THEN FqcnLoop(lines, i + 1, in_task, task_start_line, filtered, changed)
          ELSE IF ~should_fix(filtered, changed, i)
          THEN FqcnLoop(lines, i + 1, in_task, task_start_line, filtered, changed)
          ELSE
            LET m1 == ModuleMatch(line, TRUE)
                m == IF m1 # <<>> THEN m1 ELSE ModuleMatch(line, FALSE)
                module == IF m = <<>> THEN <<>> ELSE SubSeq(line, m[1], m[2] - 1)
                hit == m # <<>> /\ InFqcnMap(module)
                fixed == IF hit
                         THEN SubSeq(line, 1, m[1] - 1) \o FqcnOf(module) \o From(line, m[2])
                         ELSE line
                reset == IsTaskOrPlay(line) /\ i - 1 # task_start_line
                in1 == IF hit THEN FALSE ELSE in_task
                in2 == IF reset THEN IsTaskStart(line) ELSE in1
            IN  FqcnLoop([lines EXCEPT ![i] = fixed], i + 1, in2,
                         IF reset /\ in2 THEN i - 1 ELSE task_start_line,
                         filtered, changed)

fix_fqcn(lines, filtered, changed) == FqcnLoop(lines, 1, FALSE, 0, filtered, changed)

\* ---- fix_ignore_errors

\* range(i + 1, min(i + 10, len(lines))): the span of the look-ahead
LookAheadSpan == 10

\* re.match(r"\s*ignore_errors:\s*(yes|true|True)", line)
IsIgnoreErrors(line) ==
    LET w == SkipClass(line, 1, WS)
        v == SkipClass(line, w + Len(<<"i", "g", "n", "o", "r", "e", "_", "e", "r", "r", "o", "r", "s", ":">>), WS)
    IN  /\ At(line, w, <<"i", "g", "n", "o", "r", "e", "_", "e", "r", "r", "o", "r", "s", ":">>)
        /\ (At(line, v, <<"y", "e", "s">>) \/ At(line, v, <<"t", "r", "u", "e">>) \/ At(line, v, <<"T", "r", "u", "e">>))

\* re.match(r"\s*failed_when:", line)
IsFailedWhen(line) == At(line, SkipClass(line, 1, WS), <<"f", "a", "i", "l", "e", "d", "_", "w", "h", "e", "n", ":">>)

\* the look-ahead loop over lines j .. hi
RECURSIVE HasFailedWhen(_, _, _, _)
HasFailedWhen(lines, j, hi, indent) ==
    IF j > hi THEN FALSE
    ELSE IF IndentOf(lines[j]) < indent /\ HasText(lines[j]) THEN FALSE
    ELSE IF IsFailedWhen(lines[j]) THEN TRUE
    ELSE HasFailedWhen(lines, j + 1, hi, indent)

\* s.replace(old, new)
RECURSIVE ReplaceAll(_, _, _, _)
ReplaceAll(s, i, old, new) ==
    IF i > Len(s) THEN <<>>
    ELSE IF At(s, i, old) THEN new \o ReplaceAll(s, i + Len(old), old, new)
    ELSE <<s[i]>> \o ReplaceAll(s, i + 1, old, new)

Spaces(n) == [k \in 1..n |-> " "]

InsertAt(lines, i, line) == SubSeq(lines, 1, i - 1) \o <<line>> \o From(lines, i)

Min(a, b) == IF a < b THEN a ELSE b

\* the while loop of fix_ignore_errors from line i on (i counts from 1)
RECURSIVE IgnoreErrorsLoop(_, _, _, _)
IgnoreErrorsLoop(lines, i, filtered, changed) ==
    IF i > Len(lines) THEN lines
    ELSE IF ~should_fix(filtered, changed, i)
    THEN IgnoreErrorsLoop(lines, i + 1, filtered, changed)
    ELSE
      LET line == lines[i]
          indent == IndentOf(line)
      IN  IF IsIgnoreErrors(line)
             /\ ~HasFailedWhen(lines, i + 1, Min(i + LookAheadSpan - 1, Len(lines)), indent)
          THEN IgnoreErrorsLoop(
                 InsertAt([lines EXCEPT ![i] =
                              ReplaceAll(line, 1, <<"i", "g", "n", "o", "r", "e", "_", "e", "r", "r", "o", "r", "s", ":">>,
                                         <<"#", " ", "T", "O", "D", "O", ":", " ", "R", "e", "v", "i", "e", "w", " ", "-", " ", "w", "a", "s", " ", "i", "g", "n", "o", "r", "e", "_", "e", "r", "r", "o", "r", "s", ":">>)],
                          i + 1,
                          Spaces(indent) \o <<"f", "a", "i", "l", "e", "d", "_", "w", "h", "e", "n", ":", " ", "f", "a", "l", "s", "e", " ", " ", "#", " ", "A", "l", "w", "a", "y", "s", " ", "s", "u", "c", "c", "e", "e", "d", " ", "-", " ", "r", "e", "v", "i", "e", "w", " ", "t", "h", "i", "s", " ", "c", "o", "n", "d", "i", "t", "i", "o", "n">>),
                 i + 2, filtered, changed)
          ELSE IgnoreErrorsLoop(lines, i + 1, filtered, changed)

fix_ignore_errors(lines, filtered, changed) == IgnoreErrorsLoop(lines, 1, filtered, changed)

\* ---- apply_single_manual_fix

FixRules == {"yaml[brackets]", "yaml[truthy]", "jinja[spacing]", "fqcn[action-core]",
             "ignore-errors", "role-path"}

\* rule_to_function[rule_name](original_content, file_path)
apply_single_manual_fix(rule_name, lines, filtered, changed) ==
    CASE rule_name = "yaml[brackets]" -> fix_yaml_brackets(lines, filtered, changed)
      [] rule_name = "yaml[truthy]" -> fix_yaml_truthy(lines, filtered, changed)
      [] rule_name = "jinja[spacing]" -> fix_jinja_spacing(lines, filtered, changed)
      [] rule_name = "fqcn[action-core]" -> fix_fqcn(lines, filtered, changed)
      [] rule_name = "ignore-errors" -> fix_ignore_errors(lines, filtered, changed)
      [] rule_name = "role-path" -> fix_role_path(lines, filtered, changed)

---------------------------------------------------------------------------
(* The hand-written fixes applied to one file                              *)

MaxLines == 3
MaxFixes == 2

\* lines of task files: tasks, plays, module keys and module arguments
ModulePool == {<<"-", " ", "n", "a", "m", "e", ":", " ", "t">>, <<" ", " ", "f", "i", "l", "e", ":">>, <<" ", " ", " ", " ", "g", "r", "o", "u", "p", ":", " ", "g">>, <<"-", " ", "h", "o", "s", "t", "s", ":", " ", "h">>}

\* lines around an ignore_errors directive
DirectivePool == {<<" ", " ", "i", "g", "n", "o", "r", "e", "_", "e", "r", "r", "o", "r", "s", ":", " ", "y", "e", "s">>, <<" ", " ", "f", "a", "i", "l", "e", "d", "_", "w", "h", "e", "n", ":", " ", "x">>, <<" ", " ", "a", ":", " ", "b">>}

\* lines with brackets, template expressions, conditions and role paths
StylePool == {<<"a", ":", " ", "[", " ", "x", " ", "]">>, <<"c", ":", " ", "{", "{", "a", "|", "b", "|", "c", "}", "}">>, <<"w", "h", "e", "n", ":", " ", "a", "|", "b">>,
              <<"r", "o", "l", "e", ":", " ", ".", ".", "/", "r", "o", "l", "e", "s", "/", ".", ".", "/", "r", "o", "l", "e", "s", "/", ".", ".", "/", "r", "o", "l", "e", "s", "/", "r">>}

\* lines with a trailing value after a colon
ValuePool == {<<"k", ":", " ", "y", "e", "s">>, <<"k", ":", " ", "O", "n">>, <<"k", ":", " ", " ", "O", "F", "F", " ">>, <<"k", ":", " ", "n", "o", "p", "e">>}

LinePools == {ModulePool, DirectivePool, StylePool, ValuePool}

\* the files the fixes are tried on: content.split("\n") of a text
FileTexts == UNION {SeqsUpTo(pool, MaxLines) \ {<<>>} : pool \in LinePools}

\* an ignore_errors directive, k other lines and then a failed_when directive
LookAheadTexts ==
    {<<<<" ", " ", "i", "g", "n", "o", "r", "e", "_", "e", "r", "r", "o", "r", "s", ":", " ", "y", "e", "s">>>> \o [n \in 1..k |-> <<" ", " ", "a", ":", " ", "b">>] \o <<<<" ", " ", "f", "a", "i", "l", "e", "d", "_", "w", "h", "e", "n", ":", " ", "x">>>> :
        k \in 0..LookAheadSpan}

FixStart ==
    /\ manual_rule \in FixRules
    /\ file_lines \in FileTexts \cup LookAheadTexts
    /\ original_content = file_lines
    /\ changes_only \in BOOLEAN
    /\ changed_lines \in SUBSET (1..MaxLines)
    /\ (~changes_only => changed_lines = {})
    /\ was_modified = FALSE
    /\ fixes = 0

\* ManualFixProcessor.apply_single_manual_fix and the write-back of its
\* caller: the file is read, the rule's function is applied, and the file
\* is rewritten when the content changed
ApplySingleManualFix ==
    /\ manual_rule \in FixRules
    /\ fixes < MaxFixes
    /\ LET content == apply_single_manual_fix(manual_rule, file_lines, changes_only,
                                              changed_lines)
       IN  /\ original_content' = file_lines
           /\ was_modified' = (content # file_lines)
           /\ file_lines' = IF content # file_lines THEN content ELSE file_lines
    /\ fixes' = fixes + 1
    /\ UNCHANGED <<manual_rule, changes_only, changed_lines, outsideFix>>

---------------------------------------------------------------------------
(* The rule catalog: get_fixable_rules of both orchestrators               *)

MaxListing == 2

\* the fallback list of the except branch
KnownRules ==
    <<"command-instead-of-shell", "deprecated-local-action", "fqcn", "jinja", "key-order",
      "name", "no-free-form", "no-jinja-when", "no-log-password", "partial-become", "yaml">>

NoId == "<no id>"
NoListing == [kind |-> "none", data |-> <<>>]
NoResult == [raised |-> "not called", rules |-> <<>>]

\* the objects of the JSON rule listing: with or without an "id" key, with
\* or without the autofix tag
JsonRules == [id : {"yaml", NoId}, tags : {{}, {"autofix"}, {"idiom"}}]

\* the lines of the text listing: "- <rule> ..." bullets (one of them with
\* nothing after the dash), "tags: ..." lines, and other text
TextLines ==
    {[kind |-> "bullet", name |-> "yaml", tags |-> {}],
     [kind |-> "bullet", name |-> "", tags |-> {}],
     [kind |-> "tags", name |-> "", tags |-> {"autofix"}],
     [kind |-> "tags", name |-> "", tags |-> {"idiom"}],
     [kind |-> "text", name |-> "", tags |-> {}]}

\* subprocess.run(..., check=True) of the JSON listing followed by json.loads
JsonListings ==
    {[kind |-> k, data |-> <<>>] : k \in {"CalledProcessError", "OSError", "JSONDecodeError"}}
      \cup {[kind |-> "ok", data |-> d] : d \in SeqsUpTo(JsonRules, MaxListing)}

\* subprocess.run(..., check=True) of the text listing
TextListings ==
    {[kind |-> k, data |-> <<>>] : k \in {"CalledProcessError", "OSError"}}
      \cup {[kind |-> "ok", data |-> d] : d \in SeqsUpTo(TextLines, MaxListing)}

\* the loop over rules_data: the ids of the rules tagged autofix, or the
\* KeyError of rule["id"]
RECURSIVE JsonFixable(_)
JsonFixable(data) ==
    IF data = <<>> THEN [raised |-> "none", rules |-> <<>>]
    ELSE IF "autofix" \in Head(data).tags
    THEN IF Head(data).id = NoId THEN [raised |-> "KeyError", rules |-> <<>>]
         ELSE LET rest == JsonFixable(Tail(data))
              IN  [rest EXCEPT !.rules = <<Head(data).id>> \o @]
    ELSE JsonFixable(Tail(data))

\* the loop over the lines of the text listing from line i on: a bullet
\* line names a rule (split()[0] of nothing is an IndexError), and the rule
\* is fixable when the next line is a tags line with autofix
RECURSIVE TextFixable(_, _)
TextFixable(lines, i) ==
    IF i > Len(lines) THEN [raised |-> "none", rules |-> <<>>]
    ELSE IF lines[i].kind # "bullet" THEN TextFixable(lines, i + 1)
    ELSE IF lines[i].name = "" THEN [raised |-> "IndexError", rules |-> <<>>]
    ELSE LET rest == TextFixable(lines, i + 1)
             hit == /\ i + 1 <= Len(lines)
                    /\ lines[i + 1].kind = "tags"
                    /\ "autofix" \in lines[i + 1].tags
         IN  IF hit THEN [rest EXCEPT !.rules = <<lines[i].name>> \o @] ELSE rest

\* the text fallback and the except branch around everything
text_fallback(text) ==
    IF text.kind = "CalledProcessError" THEN [raised |-> "none", rules |-> KnownRules]
    ELSE IF text.kind = "OSError" THEN [raised |-> "OSError", rules |-> <<>>]
    ELSE TextFixable(text.data, 1)

\* get_fixable_rules
get_fixable_rules(json, text) ==
    IF json.kind = "OSError" THEN [raised |-> "OSError", rules |-> <<>>]
    ELSE IF json.kind \in {"CalledProcessError", "JSONDecodeError"} THEN text_fallback(text)
    ELSE LET viaJson == JsonFixable(json.data)
         IN  IF viaJson.raised = "none" /\ viaJson.rules # <<>> THEN viaJson
             ELSE text_fallback(text)

CatalogStart ==
    /\ json_listing \in JsonListings
    /\ text_listing \in TextListings
    /\ fixable = NoResult

GetFixableRules ==
    /\ json_listing # NoListing
    /\ fixable' = get_fixable_rules(json_listing, text_listing)
    /\ UNCHANGED <<json_listing, text_listing, outsideCatalog>>

---------------------------------------------------------------------------
(* The commit-message prefix: CommitMessageBuilder._get_commit_prefix and  *)
(* AnsibleLintFixer.get_commit_prefix.  A path is the sequence of its      *)
(* segments, str(path) the text that joins them with "/".                  *)

MaxChanged == 2

\* the working directory of the run, the top of the repository
Cwd == <<<<"r">>>>

\* Path(p).resolve() of a relative path without links and dots
Resolve(rel) == Cwd \o rel

\* str(path) of an absolute path
RECURSIVE PathStr(_)
PathStr(segs) ==
    IF segs = <<>> THEN <<>> ELSE <<"/">> \o Head(segs) \o PathStr(Tail(segs))

\* the first i with parts[i] = "roles" right after "playbooks", or 0
RECURSIVE RoleIndex(_, _)
RoleIndex(parts, i) ==
    IF i > Len(parts) THEN 0
    ELSE IF parts[i] = <<"r", "o", "l", "e", "s">> /\ i > 1 /\ parts[i - 1] = <<"p", "l", "a", "y", "b", "o", "o", "k", "s">> THEN i
    ELSE RoleIndex(parts, i + 1)

NoPrefix == <<>>
PlaybooksPrefix == <<"p", "l", "a", "y", "b", "o", "o", "k", "s", ":">>

\* _get_commit_prefix(target_path, changed_files)
get_commit_prefix(target, changed_files) ==
    LET target_path_obj == Resolve(target)
        target_str == PathStr(target_path_obj)
        all_in_target ==
            \A k \in 1..Len(changed_files) :
                StartsWith(PathStr(Resolve(changed_files[k])), target_str)
        role_index == RoleIndex(target_path_obj, 1)
    IN  IF changed_files # <<>> /\ ~all_in_target THEN PlaybooksPrefix
        ELSE IF Contains(target_str, <<"p", "l", "a", "y", "b", "o", "o", "k", "s", "/", "r", "o", "l", "e", "s", "/">>)
                /\ role_index # 0 /\ role_index + 1 <= Len(target_path_obj)
        THEN target_path_obj[role_index + 1] \o <<":">>
        ELSE IF Contains(target_str, <<"p", "l", "a", "y", "b", "o", "o", "k", "s">>) THEN PlaybooksPrefix
        ELSE target_path_obj[Len(target_path_obj)] \o <<":">>

\* the target paths of a run
TargetPaths ==
    {<<<<"p", "l", "a", "y", "b", "o", "o", "k", "s">>>>,
     <<<<"p", "l", "a", "y", "b", "o", "o", "k", "s">>, <<"r", "o", "l", "e", "s">>>>,
     <<<<"p", "l", "a", "y", "b", "o", "o", "k", "s">>, <<"r", "o", "l", "e", "s">>, <<"a">>>>,
     <<<<"p", "l", "a", "y", "b", "o", "o", "k", "s">>, <<"r", "o", "l", "e", "s">>, <<"a", "b">>>>,
     <<<<"w">>>>}

\* the files a fix can have changed
ChangedPaths ==
    {<<<<"p", "l", "a", "y", "b", "o", "o", "k", "s">>, <<"r", "o", "l", "e", "s">>, <<"a">>, <<"m", ".", "y", "m", "l">>>>,
     <<<<"p", "l", "a", "y", "b", "o", "o", "k", "s">>, <<"r", "o", "l", "e", "s">>, <<"a", "b">>, <<"m", ".", "y", "m", "l">>>>,
     <<<<"p", "l", "a", "y", "b", "o", "o", "k", "s">>, <<"m", ".", "y", "m", "l">>>>,
     <<<<"w">>, <<"m", ".", "y", "m", "l">>>>}

PrefixStart ==
    /\ target_path \in TargetPaths
    /\ commit_files \in SeqsUpTo(ChangedPaths, MaxChanged)
    /\ prefix = NoPrefix

GetCommitPrefix ==
    /\ target_path # <<>>
    /\ prefix' = get_commit_prefix(target_path, commit_files)
    /\ UNCHANGED <<target_path, commit_files, outsidePrefix>>

---------------------------------------------------------------------------
(* File discovery: RecursiveProcessor.  Paths and patterns are texts.      *)

MaxFiles == 2

\* fnmatch.fnmatch(name, pat) for patterns of literal characters, * and ?
\* (* also matches across "/")
RECURSIVE FnMatchFrom(_, _, _, _)
FnMatchFrom(name, i, pat, j) ==
    IF j > Len(pat) THEN i > Len(name)
    ELSE IF pat[j] = "*"
    THEN FnMatchFrom(name, i, pat, j + 1)
           \/ (i <= Len(name) /\ FnMatchFrom(name, i + 1, pat, j))
    ELSE /\ i <= Len(name)
         /\ (pat[j] = "?" \/ pat[j] = name[i])
         /\ FnMatchFrom(name, i + 1, pat, j + 1)

fnmatch(name, pat) == FnMatchFrom(name, 1, pat, 1)

\* s.split("/") from position i on, `acc` being the part read so far
RECURSIVE SplitFrom(_, _, _)
SplitFrom(s, i, acc) ==
    IF i > Len(s) THEN <<acc>>
    ELSE IF s[i] = "/" THEN <<acc>> \o SplitFrom(s, i + 1, <<>>)
    ELSE SplitFrom(s, i + 1, Append(acc, s[i]))

Split(s) == SplitFrom(s, 1, <<>>)

\* "/".join(parts)
RECURSIVE Join(_)
Join(parts) ==
    IF parts = <<>> THEN <<>>
    ELSE IF Len(parts) = 1 THEN parts[1]
    ELSE parts[1] \o <<"/">> \o Join(Tail(parts))

\* self.exclude_patterns
DefaultExcludes ==
    <<<<".", "g", "i", "t", "/", "*", "*">>, <<"*", "*", "/", "n", "o", "d", "e", "_", "m", "o", "d", "u", "l", "e", "s", "/", "*", "*">>, <<"*", "*", "/", "_", "_", "p", "y", "c", "a", "c", "h", "e", "_", "_", "/", "*", "*">>, <<"*", "*", "/", "v", "e", "n", "v", "/", "*", "*">>,
      <<"*", "*", "/", "e", "n", "v", "/", "*", "*">>, <<"*", "*", "/", ".", "t", "o", "x", "/", "*", "*">>, <<"*", "*", "/", "b", "u", "i", "l", "d", "/", "*", "*">>, <<"*", "*", "/", "d", "i", "s", "t", "/", "*", "*">>>>

\* Path.cwd()
WorkDir == <<"/", "w">>

IsAbsolute(path) == path # <<>> /\ path[1] = "/"

\* file_path.relative_to(Path.cwd()) is defined for the paths below cwd
BelowWorkDir(path) == StartsWith(path, WorkDir \o <<"/">>)

\* the directory-based exclusion: the pattern against every run of as many
\* path segments as the pattern has
SegmentsMatch(relative_str, pattern) ==
    LET pattern_parts == Split(pattern)
        path_parts == Split(relative_str)
    IN  \E i \in 1 .. (Len(path_parts) - Len(pattern_parts) + 1) :
            fnmatch(Join(SubSeq(path_parts, i, i + Len(pattern_parts) - 1)), pattern)

\* _should_exclude_file(file_path, exclude_patterns), for a path that
\* relative_to accepts
should_exclude_file(file_str, exclude_patterns) ==
    LET relative_str == IF IsAbsolute(file_str)
                        THEN From(file_str, Len(WorkDir) + 2)
                        ELSE file_str
    IN  \E k \in 1..Len(exclude_patterns) :
            \/ fnmatch(file_str, exclude_patterns[k])
            \/ fnmatch(relative_str, exclude_patterns[k])
            \/ (Contains(exclude_patterns[k], <<"/">>)
                  /\ SegmentsMatch(relative_str, exclude_patterns[k]))

\* ansible_dirs
AnsibleDirs ==
    {<<"p", "l", "a", "y", "b", "o", "o", "k", "s">>, <<"r", "o", "l", "e", "s">>, <<"g", "r", "o", "u", "p", "_", "v", "a", "r", "s">>, <<"h", "o", "s", "t", "_", "v", "a", "r", "s">>, <<"t", "a", "s", "k", "s">>, <<"h", "a", "n", "d", "l", "e", "r", "s">>,
     <<"v", "a", "r", "s">>, <<"d", "e", "f", "a", "u", "l", "t", "s">>, <<"m", "e", "t", "a">>}

\* file_path.parts: the segments, the root "/" of an absolute path first
Parts(path) ==
    IF IsAbsolute(path) THEN <<<<"/">>>> \o Split(From(path, 2)) ELSE Split(path)

\* _is_ansible_file: a part from ansible_dirs, or an indicator in the first
\* kilobyte of the content
is_ansible_file(file) ==
    \/ \E k \in 1..Len(Parts(file.path)) : Parts(file.path)[k] \in AnsibleDirs
    \/ file.marked

\* the files of a tree, each with its path below the root and whether its
\* first kilobyte holds one of the ansible_indicators
FilePool ==
    {[rel |-> <<"b", "u", "i", "l", "d", "/", "x", ".", "y", "m", "l">>, marked |-> TRUE],
     [rel |-> <<"a", "/", "b", "u", "i", "l", "d", "/", "x", ".", "y", "m", "l">>, marked |-> TRUE],
     [rel |-> <<"t", "a", "s", "k", "s", "/", "x", ".", "y", "m", "l">>, marked |-> FALSE],
     [rel |-> <<"a", "/", "x", ".", "y", "m", "l">>, marked |-> FALSE],
     [rel |-> <<"b", "/", "x", ".", "y", "a", "m", "l">>, marked |-> TRUE],
     [rel |-> <<"a", "/", "n", ".", "t", "x", "t">>, marked |-> TRUE]}

\* the root paths: the working directory by its relative and its absolute
\* name, and a directory outside it
RootPaths == {<<".">>, <<"/", "w">>, <<"/", "o">>}

\* str(root / rel)
Under(root, rel) == IF root = <<".">> THEN rel ELSE root \o <<"/">> \o rel

\* the name of a path
BaseName(path) == LET parts == Split(path) IN parts[Len(parts)]

\* root.glob("**/*.yml") and root.glob("**/*.yaml"), files only
Glob(root, tree, pattern) ==
    {[path |-> Under(root, f.rel), marked |-> f.marked] :
        f \in {g \in tree : fnmatch(BaseName(g.rel), pattern)}}

\* ChangeFilter.get_changed_ansible_files: the YAML files the commit changed
get_changed_ansible_files(tree) ==
    {f.rel : f \in {g \in tree : \/ fnmatch(g.rel, <<"*", ".", "y", "m", "l">>)
                                 \/ fnmatch(g.rel, <<"*", ".", "y", "a", "m", "l">>)}}

\* _apply_filters(files, None, exclude_patterns); the sorted list is held
\* as the set of its elements
apply_filters(files, exclude_patterns) ==
    {p \in files : ~should_exclude_file(p, DefaultExcludes \o exclude_patterns)}

NoDiscovery == [raised |-> "not called", files |-> {}]

\* find_ansible_files(root_path, changes_only, change_filter, None, exclude_patterns)
find_ansible_files(root, mode, tree, exclude_patterns) ==
    IF mode = "changes"
    THEN [raised |-> "none",
          files |-> apply_filters(get_changed_ansible_files(tree), exclude_patterns)]
    ELSE LET found == Glob(root, tree, <<"*", ".", "y", "m", "l">>) \cup Glob(root, tree, <<"*", ".", "y", "a", "m", "l">>)
         IN  IF \E f \in found : IsAbsolute(f.path) /\ ~BelowWorkDir(f.path)
             THEN [raised |-> "ValueError", files |-> {}]
             ELSE [raised |-> "none",
                   files |-> {f.path : f \in
                                {g \in found :
                                   /\ ~should_exclude_file(g.path,
                                          DefaultExcludes \o exclude_patterns)
                                   /\ is_ansible_file(g)}}]

UserExcludes == {<<>>, <<<<"b", "/", "*">>>>}

DiscoverStart ==
    /\ root_path \in RootPaths
    /\ discover_mode \in {"recursive", "changes"}
    /\ fs_tree \in {t \in SUBSET FilePool : Cardinality(t) <= MaxFiles}
    /\ user_excludes \in UserExcludes
    /\ discovered = NoDiscovery

FindAnsibleFiles ==
    /\ discover_mode # "none"
    /\ discovered' = find_ansible_files(root_path, discover_mode, fs_tree, user_excludes)
    /\ UNCHANGED <<root_path, discover_mode, fs_tree, user_excludes, outsideDiscover>>

---------------------------------------------------------------------------
(* The telemetry plotters: plot_nvme_ocp_stats.py, plot_nvme_smart_stats.py *)
(* A Python int is held as the sequence of its base-256 digits, the least  *)
(* significant first and without leading zeros (0 is the empty sequence).  *)

MaxBlocks == 3

Base == 256
ShiftBits == 32
DigitBits == 8

\* a + b + carry, digit by digit
RECURSIVE BigAddCarry(_, _, _)
BigAddCarry(a, b, carry) ==
    IF a = <<>> /\ b = <<>> THEN (IF carry = 0 THEN <<>> ELSE <<carry>>)
    ELSE LET x == IF a = <<>> THEN 0 ELSE Head(a)
             y == IF b = <<>> THEN 0 ELSE Head(b)
             s == x + y + carry
         IN  <<s % Base>> \o BigAddCarry(IF a = <<>> THEN <<>> ELSE Tail(a),
                                         IF b = <<>> THEN <<>> ELSE Tail(b),
                                         s \div Base)

BigAdd(a, b) == BigAddCarry(a, b, 0)

\* x << ShiftBits
ShiftLeft(x) ==
    IF x = <<>> THEN <<>> ELSE [k \in 1 .. (ShiftBits \div DigitBits) |-> 0] \o x

\* JSON values of a field: a plain number, or an object with hi and lo
PlainNumber(n) == [type |-> "int", n |-> n, hi |-> <<>>, lo |-> <<>>]
HiLo(h, l) == [type |-> "dict", n |-> <<>>, hi |-> h, lo |-> l]

\* combine_hi_lo(value_dict)
combine_hi_lo(value_dict) ==
    IF value_dict.type = "dict"
    THEN PlainNumber(BigAdd(ShiftLeft(value_dict.hi), value_dict.lo))
    ELSE value_dict

MaxWord == <<255, 255, 255, 255>>

FieldValues == {PlainNumber(<<7>>), HiLo(<<1>>, <<2>>), HiLo(MaxWord, MaxWord)}

\* what json.loads makes of a block: an object (a mapping of keys to
\* values), an array of numbers, a number, or a JSONDecodeError; `blank`
\* is a block that is empty after strip()
JsonObject(fields) == [kind |-> "object", fields |-> fields]
Other(kind) == [kind |-> kind, fields |-> <<>>]

ErrorValue == [type |-> "str", n |-> <<>>, hi |-> <<>>, lo |-> <<>>]

Objects ==
    {JsonObject(<<>>), JsonObject([k \in {"error"} |-> ErrorValue])}
      \cup {JsonObject([k \in {"m"} |-> v]) : v \in FieldValues}
      \cup {JsonObject([k \in {"error", "m"} |-> IF k = "m" THEN v ELSE ErrorValue]) :
              v \in FieldValues}

Bodies == Objects \cup {Other("blank"), Other("malformed"), Other("array"), Other("number")}

\* the (timestamp, block) pairs re.split yields; time_ok tells whether the
\* digits of the timestamp make a date datetime.strptime accepts
Blocks ==
    {[time_ok |-> TRUE, body |-> b] : b \in Bodies}
      \cup {[time_ok |-> FALSE, body |-> JsonObject([k \in {"m"} |-> PlainNumber(<<7>>)])]}

NoParse == [raised |-> "not called", data_points |-> <<>>]

\* the for loop of parse_nvme_ocp_stats_file over the entries
RECURSIVE ParseOcp(_)
ParseOcp(entries) ==
    IF entries = <<>> THEN [raised |-> "none", data_points |-> <<>>]
    ELSE LET data == Head(entries).body
             rest == ParseOcp(Tail(entries))
         IN  IF data.kind \in {"blank", "malformed"} THEN rest
             ELSE IF data.kind = "number" THEN [raised |-> "TypeError", data_points |-> <<>>]
             ELSE IF data.kind = "array"
             THEN [raised |-> "AttributeError", data_points |-> <<>>]
             ELSE IF "error" \in DOMAIN data.fields THEN rest
             ELSE IF rest.raised # "none" THEN rest
             ELSE [rest EXCEPT !.data_points =
                     <<JsonObject([k \in DOMAIN data.fields |->
                                      combine_hi_lo(data.fields[k])])>> \o @]

\* the for loop of parse_nvme_smart_stats_file over the entries
RECURSIVE ParseSmart(_)
ParseSmart(entries) ==
    IF entries = <<>> THEN [raised |-> "none", data_points |-> <<>>]
    ELSE LET data == Head(entries).body
             rest == ParseSmart(Tail(entries))
         IN  IF data.kind = "blank" THEN rest
             ELSE IF ~Head(entries).time_ok THEN rest
             ELSE IF data.kind = "malformed" THEN rest
             ELSE IF data.kind = "number" THEN [raised |-> "TypeError", data_points |-> <<>>]
             ELSE IF data.kind = "object" /\ "error" \in DOMAIN data.fields THEN rest
             ELSE IF rest.raised # "none" THEN rest
             ELSE [rest EXCEPT !.data_points = <<data>> \o @]

parse_stats_file(which, entries) ==
    IF which = "ocp" THEN ParseOcp(entries) ELSE ParseSmart(entries)

ZeroValue == PlainNumber(<<>>)

\* extract_metric_series leaving out the samples that lack the key
extract_metric_series_skipping(data_points, key) ==
    LET having == SelectSeq(data_points,
                            LAMBDA d : d.kind = "object" /\ key \in DOMAIN d.fields)
    IN  [i \in 1..Len(having) |-> having[i].fields[key]]

\* extract_metric_series(data_points, metric_key)
extract_metric_series(data_points, key) ==
    [i \in 1..Len(data_points) |->
        IF data_points[i].kind = "object" /\ key \in DOMAIN data_points[i].fields
        THEN data_points[i].fields[key]
        ELSE ZeroValue]

MetricKeys == {"m", "t"}
NoSeries == [key |-> "", values |-> <<>>]

TelemetryStart ==
    /\ plotter \in {"ocp", "smart"}
    /\ log_entries \in SeqsUpTo(Blocks, MaxBlocks)
    /\ parsed = NoParse
    /\ series = NoSeries

ParseStatsFile ==
    /\ plotter # "none"
    /\ parsed = NoParse
    /\ parsed' = parse_stats_file(plotter, log_entries)
    /\ UNCHANGED <<plotter, log_entries, series, outsideTelemetry>>

ExtractMetricSeries ==
    /\ parsed.raised = "none"
    /\ \E key \in MetricKeys :
          series' = [key |-> key, values |-> extract_metric_series(parsed.data_points, key)]
    /\ UNCHANGED <<plotter, log_entries, parsed, outsideTelemetry>>

---------------------------------------------------------------------------
(* generate_refs.py: the Kconfig choice generator for git references       *)

MaxRefLines == 2
MaxReleases == 3

Tab == <<"\t">>

\* str(id) as format() writes it
RECURSIVE Decimal(_)
Decimal(n) ==
    LET d == <<"0", "1", "2", "3", "4", "5", "6", "7", "8", "9">>[(n % 10) + 1]
    IN  IF n < 10 THEN <<d>> ELSE Decimal(n \div 10) \o <<d>>

\* the for loop of gitref_getreflist, `refs` being the names taken so far
RECURSIVE GetRefListFrom(_, _, _)
GetRefListFrom(limit, reflines, refs) ==
    IF reflines = <<>> THEN refs
    ELSE IF Contains(Head(reflines), <<"^", "{", "}">>) THEN GetRefListFrom(limit, Tail(reflines), refs)
    ELSE IF Len(refs) >= limit THEN refs
    ELSE LET parts == Split(Head(reflines))
         IN  GetRefListFrom(limit, Tail(reflines), Append(refs, parts[Len(parts)]))

\* gitref_getreflist(args, reflist), the output already split into lines
gitref_getreflist(limit, reflines) == GetRefListFrom(limit, reflines, <<>>)

\* the reflist gitref builds from the two outputs of remote()
gitref_reflist(limit, refstr) ==
    gitref_getreflist(limit, refstr[1]) \o gitref_getreflist(limit, refstr[2])

\* the reflist kreleases builds from the feed
kreleases_reflist(data, wanted) ==
    LET chosen == SelectSeq(data, LAMBDA release : release.moniker = wanted)
    IN  [i \in 1..Len(chosen) |-> chosen[i].version]

\* a Python dict: its items in insertion order
NoRefs == <<>>

HasRef(refs, name) == \E i \in 1..Len(refs) : refs[i].ref = name

\* refs.update({name: config})
DictUpdate(refs, name, config) ==
    IF HasRef(refs, name)
    THEN [i \in 1..Len(refs) |-> IF refs[i].ref = name THEN [ref |-> name, conf |-> config]
                                 ELSE refs[i]]
    ELSE Append(refs, [ref |-> name, conf |-> config])

\* refs.update(other)
RECURSIVE DictUpdateAll(_, _)
DictUpdateAll(refs, other) ==
    IF other = <<>> THEN refs
    ELSE DictUpdateAll(DictUpdate(refs, Head(other).ref, Head(other).conf), Tail(other))

\* "{prefix}_REF_{id}"
RefConfig(pfx, id) == pfx \o <<"_", "R", "E", "F", "_">> \o Decimal(id)

\* _ref_generator_choices(args, reflist, id): the dict returned and the
\* lines appended to the output file
RECURSIVE ref_generator_choices(_, _, _)
ref_generator_choices(pfx, reflist, id) ==
    IF reflist = <<>> THEN [refs |-> NoRefs, lines |-> <<>>]
    ELSE LET rest == ref_generator_choices(pfx, Tail(reflist), id + 1)
             config == RefConfig(pfx, id)
         IN  [refs |-> DictUpdateAll(DictUpdate(NoRefs, Head(reflist), config), rest.refs),
              lines |-> << <<"c", "o", "n", "f", "i", "g", " ">> \o config,
                           Tab \o <<" ", "b", "o", "o", "l", " ", "\"">> \o Head(reflist) \o <<"\"">>,
                           <<>> >> \o rest.lines]

CustomMark == <<"_", "C", "U", "S", "T", "O", "M", "_", "N", "A", "M", "E">>

\* _ref_generator_choices_static(args, conf_name, ref_name, ref_help)
ref_generator_choices_static(conf_name, ref_name, ref_help) ==
    [refs |-> DictUpdate(NoRefs, ref_name, conf_name),
     lines |-> << <<"c", "o", "n", "f", "i", "g", " ">> \o conf_name,
                  IF Contains(ref_name, CustomMark) THEN Tab \o <<"b", "o", "o", "l", " ", "\"", "c", "u", "s", "t", "o", "m", "\"">>
                  ELSE Tab \o <<"b", "o", "o", "l", " ", "\"">> \o ref_name \o <<"\"">> >>
               \o (IF ref_help # <<>>
                   THEN << Tab \o <<"h", "e", "l", "p">>, Tab \o Tab \o ref_help, <<>> >>
                   ELSE << <<>> >>)]

\* the loop of ref_generator over extraconfs
RECURSIVE StaticChoices(_)
StaticChoices(confs) ==
    IF confs = <<>> THEN [refs |-> NoRefs, lines |-> <<>>]
    ELSE LET one == ref_generator_choices_static(Head(confs).config, Head(confs).ref,
                                                 Head(confs).help)
             rest == StaticChoices(Tail(confs))
         IN  [refs |-> DictUpdateAll(one.refs, rest.refs), lines |-> one.lines \o rest.lines]

\* the default line ref_generator writes for one item of refs
DefaultLine(item) ==
    IF Contains(item.ref, CustomMark)
    THEN Tab \o <<"d", "e", "f", "a", "u", "l", "t", " ">> \o item.ref \o <<" ", "i", "f", " ">> \o item.conf
    ELSE Tab \o <<"d", "e", "f", "a", "u", "l", "t", " ", "\"">> \o item.ref \o <<"\"", " ", "i", "f", " ">> \o item.conf

\* ref_generator(args, reflist, extraconfs): the lines of the output file
ref_generator(pfx, reflist, extraconfs) ==
    LET choices == ref_generator_choices(pfx, reflist, 0)
        static == StaticChoices(extraconfs)
        refs == DictUpdateAll(DictUpdateAll(NoRefs, choices.refs), static.refs)
    IN  << <<"#", " ", "S", "P", "D", "X", "-", "L", "i", "c", "e", "n", "s", "e", "-", "I", "d", "e", "n", "t", "i", "f", "i", "e", "r", ":", " ", "c", "o", "p", "y", "l", "e", "f", "t", "-", "n", "e", "x", "t", "-", "0", ".", "3", ".", "1">>,
           <<"#", " ", "A", "u", "t", "o", "m", "a", "t", "i", "c", "a", "l", "l", "y", " ", "g", "e", "n", "e", "r", "a", "t", "e", "d", " ", "f", "i", "l", "e">>,
           <<"c", "h", "o", "i", "c", "e">>,
           Tab \o <<"p", "r", "o", "m", "p", "t", " ", "\"", "T", "a", "g", " ", "o", "r", " ", "b", "r", "a", "n", "c", "h", " ", "t", "o", " ", "u", "s", "e", "\"">>,
           <<>> >>
          \o choices.lines \o static.lines
          \o << <<"e", "n", "d", "c", "h", "o", "i", "c", "e">>, <<>>, <<"c", "o", "n", "f", "i", "g", " ">> \o pfx \o <<"_", "R", "E", "F">>, Tab \o <<"s", "t", "r", "i", "n", "g">> >>
          \o [i \in 1..Len(refs) |-> DefaultLine(refs[i])]

\* args.prefix
KconfigPrefix == <<"B", "O", "O", "T", "L", "I", "N", "U", "X", "_", "T", "R", "E", "E">>

\* subsequences of `pool` of at most n elements, the order of pool kept
RECURSIVE SubSeqsUpTo(_, _)
SubSeqsUpTo(pool, n) ==
    IF pool = <<>> \/ n = 0 THEN {<<>>}
    ELSE SubSeqsUpTo(Tail(pool), n)
           \cup {<<Head(pool)>> \o s : s \in SubSeqsUpTo(Tail(pool), n - 1)}

\* lines of `git ls-remote --heads` and `--tags`, sorted as git sorts them
HeadLines ==
    << <<"a", "1", "\t", "r", "e", "f", "s", "/", "h", "e", "a", "d", "s", "/", "y">>, <<"a", "2", "\t", "r", "e", "f", "s", "/", "h", "e", "a", "d", "s", "/", "x">>, <<"a", "3", "\t", "r", "e", "f", "s", "/", "h", "e", "a", "d", "s", "/", "f", "/", "x">> >>

TagLines ==
    << <<"b", "1", "\t", "r", "e", "f", "s", "/", "t", "a", "g", "s", "/", "z", "^", "{", "}">>, <<"b", "2", "\t", "r", "e", "f", "s", "/", "t", "a", "g", "s", "/", "z">>, <<"b", "3", "\t", "r", "e", "f", "s", "/", "t", "a", "g", "s", "/", "x">> >>

\* the releases of kernel.org/releases.json
Release(mon, ver) == [moniker |-> mon, version |-> ver]

ReleasePool ==
    << Release("mainline", <<"6", ".", "1", "0", "-", "r", "c", "1">>), Release("stable", <<"6", ".", "9">>),
       Release("stable", <<"6", ".", "8">>), Release("stable", <<"6", ".", "7">>) >>

Monikers == {"mainline", "stable"}

\* the configs of the --extra YAML file
ExtraPool ==
    { <<>>,
      << [config |-> KconfigPrefix \o <<"_", "C", "U", "S", "T", "O", "M", "_", "R", "E", "F">>,
          ref |-> KconfigPrefix \o <<"_", "C", "U", "S", "T", "O", "M", "_", "N", "A", "M", "E">>, help |-> <<"c", "u", "s", "t", "o", "m">>] >>,
      << [config |-> KconfigPrefix \o <<"_", "R", "E", "F", "_", "X">>, ref |-> <<"x">>, help |-> <<>>] >> }

NoOutput == << <<"?">> >>

RefsStart ==
    /\ refs_cmd \in {"gitref", "kreleases"}
    /\ IF refs_cmd = "gitref"
       THEN /\ remote_out \in SubSeqsUpTo(HeadLines, MaxRefLines)
                               \X SubSeqsUpTo(TagLines, MaxRefLines)
            /\ refs_limit \in 1..MaxRefLines
            /\ extra \in ExtraPool
            /\ releases = <<>>
            /\ wanted_moniker = "none"
       ELSE /\ remote_out = << <<>>, <<>> >>
            /\ refs_limit = 1
            /\ extra = <<>>
            /\ releases \in SubSeqsUpTo(ReleasePool, MaxReleases)
            /\ wanted_moniker \in Monikers
    /\ ref_list = <<>>
    /\ output = NoOutput

\* gitref(args)
Gitref ==
    /\ refs_cmd = "gitref"
    /\ output = NoOutput
    /\ ref_list' = gitref_reflist(refs_limit, remote_out)
    /\ output' = ref_generator(KconfigPrefix, ref_list', extra)
    /\ UNCHANGED <<refs_cmd, remote_out, refs_limit, extra, releases, wanted_moniker,
                   outsideRefs>>

\* kreleases(args)
Kreleases ==
    /\ refs_cmd = "kreleases"
    /\ output = NoOutput
    /\ ref_list' = kreleases_reflist(releases, wanted_moniker)
    /\ output' = ref_generator(KconfigPrefix, ref_list', <<>>)
    /\ UNCHANGED <<refs_cmd, remote_out, refs_limit, extra, releases, wanted_moniker,
                   outsideRefs>>

---------------------------------------------------------------------------
(* generate_refs.py: main and the age test of the output file              *)

MaxRuns == 2

\* the age in seconds beyond which the output file is generated anew
StaleAfter == 86400

NoFile == << <<"absent">> >>

\* check_file_date(file) with the file inclusive of its age limit
check_file_date_inclusive(exists, modified_time, current_time) ==
    IF ~exists THEN TRUE ELSE current_time - modified_time >= StaleAfter

\* check_file_date(file)
check_file_date(exists, modified_time, current_time) ==
    IF ~exists THEN TRUE ELSE current_time - modified_time > StaleAfter

\* what the remote side answers to one run. For gitref: git is not
\* installed (Popen raises FileNotFoundError), or the two outputs of
\* git ls-remote, both empty when git fails or the filters match nothing.
\* For kreleases: the feed cannot be fetched (urlopen raises), or its releases.
GitAnswers ==
    { [raised |-> TRUE, refstr |-> << <<>>, <<>> >>],
      [raised |-> FALSE, refstr |-> << <<>>, <<>> >>],
      [raised |-> FALSE, refstr |-> << <<HeadLines[1]>>, <<TagLines[2]>> >>] }

FeedAnswers ==
    { [raised |-> TRUE, releases |-> <<>>],
      [raised |-> FALSE, releases |-> ReleasePool] }

RegenMonikers == {"stable", "longterm"}

RunArgs ==
    {[cmd |-> "gitref", force |-> f, moniker |-> "none", answer |-> a] :
        f \in BOOLEAN, a \in GitAnswers}
      \cup {[cmd |-> "kreleases", force |-> f, moniker |-> mon, answer |-> a] :
              f \in BOOLEAN, mon \in RegenMonikers, a \in FeedAnswers}

\* main(): what one run makes of the output file. `called` tells whether
\* the subcommand was entered, `queried` whether the remote side was asked.
main(args, file, modified_time, current_time) ==
    IF ~args.force /\ ~check_file_date(file # NoFile, modified_time, current_time)
    THEN [called |-> FALSE, queried |-> FALSE, file |-> file, mtime |-> modified_time]
    ELSE IF args.answer.raised
    THEN [called |-> TRUE, queried |-> TRUE, file |-> file, mtime |-> modified_time]
    ELSE [called |-> TRUE, queried |-> TRUE,
          file |-> IF args.cmd = "gitref"
                   THEN ref_generator(KconfigPrefix,
                                      gitref_reflist(MaxRefLines, args.answer.refstr), <<>>)
                   ELSE ref_generator(KconfigPrefix,
                                      kreleases_reflist(args.answer.releases, args.moniker),
                                      <<>>),
          mtime |-> current_time]

NoMain == [ran |-> FALSE, args |-> [cmd |-> "none"], before |-> NoFile, age |-> 0,
           mtime |-> 0, queries |-> 0, called |-> FALSE]

\* a fragment left by an earlier run, for the runs that find a file
EarlierFile ==
    ref_generator(KconfigPrefix, kreleases_reflist(ReleasePool, "stable"), <<>>)

RegenStart ==
    /\ ref_file \in {NoFile, EarlierFile}
    /\ ref_mtime = 0
    /\ clock = 0
    /\ main_runs = 0
    /\ waited = FALSE
    /\ remote_queries = 0
    /\ last_main = NoMain

\* one run of the script
Main ==
    /\ main_runs < MaxRuns
    /\ \E args \in RunArgs :
          LET done == main(args, ref_file, ref_mtime, clock)
          IN  /\ ref_file' = done.file
              /\ ref_mtime' = done.mtime
              /\ remote_queries' = remote_queries + (IF done.queried THEN 1 ELSE 0)
              /\ last_main' = [ran |-> TRUE, args |-> args, before |-> ref_file,
                               age |-> clock - ref_mtime, mtime |-> ref_mtime,
                               queries |-> remote_queries,
                               called |-> done.called]
    /\ main_runs' = main_runs + 1
    /\ waited' = FALSE
    /\ UNCHANGED <<clock, outsideRegen>>

\* time passes between two runs
Wait ==
    /\ main_runs < MaxRuns
    /\ ~waited
    /\ \E delay \in {1, StaleAfter, StaleAfter + 1} : clock' = clock + delay
    /\ waited' = TRUE
    /\ UNCHANGED <<ref_file, ref_mtime, main_runs, remote_queries, last_main, outsideRegen>>

---------------------------------------------------------------------------
(* ansible-lint-comprehensive-fixer.py main: the configuration file merged *)
(* into the parsed command line                                            *)

MaxPatterns == 1

\* Python's None
None == [type |-> "none"]

Str(s) == [type |-> "str", s |-> s]
Bool(b) == [type |-> "bool", b |-> b]
List(l) == [type |-> "list", l |-> l]

\* the options looked at: the positional path, a store_true flag, an option
\* with a value, and two options with action="append"
OptionNames == {"path", "dry_run", "by_tag", "include", "exclude_rules"}

ListOptions == {"include", "exclude", "include_rules", "exclude_rules"}

Patterns == {"x", "y"}

\* what was written on the command line: for every option its value there,
\* or None when the option does not occur
CommandLines ==
    {[path |-> p, dry_run |-> d, by_tag |-> t, include |-> i, exclude_rules |-> e] :
        p \in {None, Str("roles/")},
        d \in {None, Bool(TRUE)},
        t \in {None, Str("formatting")},
        i \in {None} \cup {List(l) : l \in SeqsUpTo(Patterns, MaxPatterns) \ {<<>>}},
        e \in {None, List(<<"x">>)}}

\* parser.parse_args(): the namespace of a command line
parse_args(given) ==
    [given EXCEPT !.path = IF @ = None THEN Str("playbooks/") ELSE @,
                  !.dry_run = IF @ = None THEN Bool(FALSE) ELSE @]

\* the body of the loop over config_overrides.items() for one key
apply_override(args, key, value) ==
    IF key \notin DOMAIN args THEN args
    ELSE IF key \in ListOptions
    THEN LET listed == IF value.type = "str" THEN List(<<value.s>>) ELSE value
         IN  IF args[key] = None THEN [args EXCEPT ![key] = listed]
             ELSE [args EXCEPT ![key] = List(@.l \o listed.l)]
    ELSE IF args[key] = None \/ (args[key].type = "bool" /\ ~args[key].b)
    THEN [args EXCEPT ![key] = value]
    ELSE args

\* the loop over config_overrides.items()
RECURSIVE apply_overrides(_, _, _)
apply_overrides(args, overrides, keys) ==
    IF keys = {} THEN args
    ELSE LET key == CHOOSE k \in keys : TRUE
         IN  apply_overrides(apply_override(args, key, overrides[key]), overrides,
                             keys \ {key})

\* the top-level keys of a configuration file and their values
ConfigValues ==
    [path |-> {Str("tasks/")},
     dry_run |-> {Bool(TRUE), Bool(FALSE)},
     by_tag |-> {Str("idiom")},
     include |-> {Str("y")} \cup {List(l) : l \in SeqsUpTo(Patterns, MaxPatterns)},
     exclude_rules |-> {List(<<"y">>)},
     color |-> {Str("never")}]

ConfigFiles ==
    UNION {[keys -> UNION {ConfigValues[k] : k \in keys}] : keys \in SUBSET DOMAIN ConfigValues}

NoArgs == [path |-> None]

ConfigStart ==
    /\ command_line \in CommandLines
    /\ config_file \in {cfg \in ConfigFiles : \A k \in DOMAIN cfg : cfg[k] \in ConfigValues[k]}
    /\ merged_args = NoArgs

\* main(): the arguments parsed and the configuration applied
ApplyConfigOverrides ==
    /\ command_line # NoArgs
    /\ merged_args = NoArgs
    /\ merged_args' = apply_overrides(parse_args(command_line), config_file,
                                      DOMAIN config_file)
    /\ UNCHANGED <<command_line, config_file, outsideConfig>>

---------------------------------------------------------------------------
(* Specifications                                                          *)

DiffIdle ==
    /\ repoDiff = <<>>
    /\ changed_lines_cache = <<>>
    /\ query = NoQuery
    /\ first_outcome = <<>>
    /\ repeated = FALSE

CleanTree == [f \in FileSet |-> IF f \in YamlFiles THEN {} ELSE Absent]

\* a clean checkout, with or without an untracked file lying in it
RunStart ==
    /\ script \in {"comprehensive", "fixrules"}
    /\ auto_accept \in BOOLEAN
    /\ \E untracked \in BOOLEAN :
         worktree = [f \in FileSet |-> IF f \in YamlFiles \/ untracked THEN {} ELSE Absent]
    /\ index = CleanTree
    /\ headTree = CleanTree
    /\ commits = <<>>
    /\ pos = 0
    /\ phase = "rules"
    /\ processed_rules = {}
    /\ failed_rules = {}
    /\ msgs = [r \in RuleIds |-> {}]
    /\ last = NoLast

RunIdle ==
    /\ script = "none"
    /\ auto_accept = FALSE
    /\ worktree = CleanTree
    /\ index = CleanTree
    /\ headTree = CleanTree
    /\ commits = <<>>
    /\ pos = 0
    /\ phase = "idle"
    /\ processed_rules = {}
    /\ failed_rules = {}
    /\ msgs = [r \in RuleIds |-> {}]
    /\ last = NoLast

FixIdle ==
    /\ manual_rule = "none"
    /\ changes_only = FALSE
    /\ changed_lines = {}
    /\ file_lines = <<>>
    /\ original_content = <<>>
    /\ was_modified = FALSE
    /\ fixes = 0

CatalogIdle ==
    /\ json_listing = NoListing
    /\ text_listing = NoListing
    /\ fixable = NoResult

PrefixIdle ==
    /\ target_path = <<>>
    /\ commit_files = <<>>
    /\ prefix = NoPrefix

DiscoverIdle ==
    /\ root_path = <<>>
    /\ discover_mode = "none"
    /\ fs_tree = {}
    /\ user_excludes = <<>>
    /\ discovered = NoDiscovery

TelemetryIdle ==
    /\ plotter = "none"
    /\ log_entries = <<>>
    /\ parsed = NoParse
    /\ series = NoSeries

RefsIdle ==
    /\ refs_cmd = "none"
    /\ remote_out = << <<>>, <<>> >>
    /\ refs_limit = 1
    /\ extra = <<>>
    /\ releases = <<>>
    /\ wanted_moniker = "none"
    /\ ref_list = <<>>
    /\ output = NoOutput

RegenIdle ==
    /\ ref_file = NoFile
    /\ ref_mtime = 0
    /\ clock = 0
    /\ main_runs = 0
    /\ waited = FALSE
    /\ remote_queries = 0
    /\ last_main = NoMain

ConfigIdle ==
    /\ command_line = NoArgs
    /\ config_file = <<>>
    /\ merged_args = NoArgs


InterruptIdle == interruption = NoInterruption

DryIdle ==
    /\ dry_run = FALSE
    /\ run_mode = "none"
    /\ commands = {}

\* the change-scope filter of one process
DiffInit == DiffStart /\ RunIdle /\ FixIdle /\ CatalogIdle /\ PrefixIdle /\ DiscoverIdle /\ TelemetryIdle /\ RefsIdle /\ RegenIdle /\ ConfigIdle /\ InterruptIdle /\ DryIdle
NextDiff == GetChangedLines \/ NewRun
SpecDiff == DiffInit /\ [][NextDiff]_vars

\* a run of one of the rule-by-rule orchestrators
RunInit == RunStart /\ DiffIdle /\ FixIdle /\ CatalogIdle /\ PrefixIdle /\ DiscoverIdle /\ TelemetryIdle /\ RefsIdle /\ RegenIdle /\ ConfigIdle /\ InterruptIdle /\ DryIdle
NextRun == ProcessRuleComprehensive \/ ProcessRuleFixRules
SpecRun == RunInit /\ [][NextRun]_vars

\* the hand-written fix of one rule, applied to one file again and again
FixInit == FixStart /\ DiffIdle /\ RunIdle /\ CatalogIdle /\ PrefixIdle /\ DiscoverIdle /\ TelemetryIdle /\ RefsIdle /\ RegenIdle /\ ConfigIdle /\ InterruptIdle /\ DryIdle
NextFix == ApplySingleManualFix
SpecFix == FixInit /\ [][NextFix]_vars

\* the rule catalog asked for the fixable rules
CatalogInit == CatalogStart /\ DiffIdle /\ RunIdle /\ FixIdle /\ PrefixIdle /\ DiscoverIdle /\ TelemetryIdle /\ RefsIdle /\ RegenIdle /\ ConfigIdle /\ InterruptIdle /\ DryIdle
NextCatalog == GetFixableRules
SpecCatalog == CatalogInit /\ [][NextCatalog]_vars

\* the prefix of a commit message
PrefixInit == PrefixStart /\ DiffIdle /\ RunIdle /\ FixIdle /\ CatalogIdle /\ DiscoverIdle /\ TelemetryIdle /\ RefsIdle /\ RegenIdle /\ ConfigIdle /\ InterruptIdle /\ DryIdle
NextPrefix == GetCommitPrefix
SpecPrefix == PrefixInit /\ [][NextPrefix]_vars

\* one discovery of the files to fix
DiscoverInit == DiscoverStart /\ DiffIdle /\ RunIdle /\ FixIdle /\ CatalogIdle /\ PrefixIdle /\ TelemetryIdle /\ RefsIdle /\ RegenIdle /\ ConfigIdle /\ InterruptIdle /\ DryIdle
NextDiscover == FindAnsibleFiles
SpecDiscover == DiscoverInit /\ [][NextDiscover]_vars

\* a telemetry log parsed and its metrics extracted
TelemetryInit == TelemetryStart /\ DiffIdle /\ RunIdle /\ FixIdle /\ CatalogIdle /\ PrefixIdle /\ DiscoverIdle /\ RefsIdle /\ RegenIdle /\ ConfigIdle /\ InterruptIdle /\ DryIdle
NextTelemetry == ParseStatsFile \/ ExtractMetricSeries
SpecTelemetry == TelemetryInit /\ [][NextTelemetry]_vars

\* one run of generate_refs.py
RefsInit == RefsStart /\ DiffIdle /\ RunIdle /\ FixIdle /\ CatalogIdle /\ PrefixIdle /\ DiscoverIdle /\ TelemetryIdle /\ RegenIdle /\ ConfigIdle /\ InterruptIdle /\ DryIdle
NextRefs == Gitref \/ Kreleases
SpecRefs == RefsInit /\ [][NextRefs]_vars

\* generate_refs.py run again as time passes
RegenInit == RegenStart /\ DiffIdle /\ RunIdle /\ FixIdle /\ CatalogIdle /\ PrefixIdle /\ DiscoverIdle /\ TelemetryIdle /\ RefsIdle /\ ConfigIdle /\ InterruptIdle /\ DryIdle
NextRegen == Main \/ Wait
SpecRegen == RegenInit /\ [][NextRegen]_vars

\* a configuration file merged into the command line
ConfigInit == ConfigStart /\ DiffIdle /\ RunIdle /\ FixIdle /\ CatalogIdle /\ PrefixIdle /\ DiscoverIdle /\ TelemetryIdle /\ RefsIdle /\ RegenIdle /\ InterruptIdle /\ DryIdle
NextConfig == ApplyConfigOverrides
SpecConfig == ConfigInit /\ [][NextConfig]_vars

\* a run of one of the orchestrators that may be interrupted from outside
InterruptInit == RunInit
NextInterrupt ==
    \/ ProcessRuleComprehensive
    \/ ProcessRuleFixRules
    \/ InterruptComprehensive
    \/ InterruptFixRules
SpecInterrupt == InterruptInit /\ [][NextInterrupt]_vars

\* main() of one of the three scripts, with or without --dry-run
DryStart ==
    /\ run_mode \in RunModes
    /\ script \in (IF run_mode = "manual" THEN {"fix_ansible_lint"}
                   ELSE {"comprehensive", "fixrules"})
    /\ dry_run \in BOOLEAN
    /\ commands = {}
    /\ auto_accept \in BOOLEAN
    /\ \E untracked \in BOOLEAN :
         worktree = [f \in FileSet |-> IF f \in YamlFiles \/ untracked THEN {} ELSE Absent]
    /\ index = CleanTree
    /\ headTree = CleanTree
    /\ commits = <<>>
    /\ pos = 0
    /\ phase = "start"
    /\ processed_rules = {}
    /\ failed_rules = {}
    /\ msgs = [r \in RuleIds |-> {}]
    /\ last = NoLast

DryInit ==
    DryStart /\ InterruptIdle /\ DiffIdle /\ FixIdle /\ CatalogIdle /\ PrefixIdle
             /\ DiscoverIdle /\ TelemetryIdle /\ RefsIdle /\ RegenIdle /\ ConfigIdle
NextDry ==
    \/ ProcessRules
    \/ ProcessByTag
    \/ FixAnsibleLintMain
    \/ ProcessRuleComprehensive
    \/ ProcessRuleFixRules
SpecDry == DryInit /\ [][NextDry]_vars

---------------------------------------------------------------------------
(* Claims about the change-scope filter                                    *)

\* the line numbers the hunk headers of a diff name: c .. c+d-1 per header,
\* d being 1 when the count is omitted
HunkUnion(recs) ==
    UNION { IF recs[k].kind = "hunk"
            THEN recs[k].c ..
                   (recs[k].c + (IF recs[k].d = <<>> THEN 1 ELSE recs[k].d[1]) - 1)
            ELSE {} : k \in 1..Len(recs) }

\* C1: whenever the diff of a file was obtained, get_changed_lines returns
\* exactly the union, over the hunk headers `@@ -a[,b] +c[,d] @@` of that
\* diff, of the lines c .. c+d-1 (d = 1 when omitted), and nothing else.
C1_ChangedLinesAreHunkUnion ==
    query.outcome \in {"ok", "cached"}
        => query.ret = HunkUnion(DiffFor(repoDiff, query.path))

\* a diff of two headers, one without a count and one with two-digit numbers
C1_Witness ==
    /\ query.outcome = "ok"
    /\ Len(DiffFor(repoDiff, query.path)) = 2
    /\ query.ret = {3} \cup (10 .. 21)

\* line numbers a file can have, around the end of the fail-open range
ProbeLines == {1, FailOpenLimit - 1, FailOpenLimit}

\* C2: whenever the diff of a file cannot be obtained, should_fix_line is
\* true for every line number of the file and no error reaches the caller.
C2_FailsOpenForEveryLine ==
    query.outcome \in {"CalledProcessError", "OSError"}
        => /\ ~query.raised
           /\ \A n \in ProbeLines : should_fix_line(query.ret, n)

\* the set a call with the given outcome returns for a path
AnswerOf(outcome, p) ==
    get_changed_lines(<<>>, repoDiff, p, outcome).q.ret

\* C12: within one run, a query for a path that was answered before returns
\* the set the first query returned and is served from the cache, without
\* another invocation of git, whether the first query obtained the diff or
\* failed open.
C12_LaterQueriesServedFromCache ==
    repeated
        => /\ query.outcome = "cached"
           /\ ~query.called
           /\ ~query.raised
           /\ query.ret = AnswerOf(first_outcome[query.path], query.path)

---------------------------------------------------------------------------
(* Claims about the rule-by-rule fix executor                              *)

\* C3: a rule whose tool invocation ran to its end is reported as applied
\* with changes if and only if the working tree after the invocation
\* differs from the working tree right before it, whatever the earlier
\* rules and commit decisions were.
C3_AppliedIffTreeChanged ==
    last.tool = "ran"
        => (("applied" \in msgs[last.rule]) <=> (last.toolWt # last.preWt))

\* C4: a rule that produced changes and whose commit the user declined ends
\* skipped: its changed files stay modified on disk and differ from the
\* index, the index and HEAD are as they were before the rule, no commit is
\* created, and the rule is not among the failed rules.
C4_DeclineLeavesChangesUnstaged ==
    last.decision = "decline"
        => /\ "skipped" \in msgs[last.rule]
           /\ "committed" \notin msgs[last.rule]
           /\ last.rule \notin failed_rules
           /\ last.changed # {}
           /\ \A f \in last.changed : worktree[f] # index[f]
           /\ worktree = last.toolWt
           /\ index = last.preIdx
           /\ headTree = last.preHead
           /\ Len(commits) = last.preCommits

\* the second rule changed two files and was declined, in the plain script
C4_Witness ==
    /\ last.decision = "decline"
    /\ last.rule = NRules
    /\ Cardinality(last.changed) = Cardinality(YamlFiles)
    /\ script = "fixrules"

\* C5: when a commit is accepted and staging succeeds, the paths staged for
\* it are exactly the changed files enumerated for the rule, in both scripts.
C5_StagesExactlyChangedFiles ==
    (last.decision = "accept" /\ last.addOk)
        => {f \in FileSet : last.addIdx[f] # last.preIdx[f]} = last.changed

\* C6: a rule whose lint invocation timed out is recorded among the failed
\* rules and is not reported as "no changes needed".
C6_TimeoutRecordedAsFailure ==
    last.tool = "timeout"
        => /\ last.rule \in failed_rules
           /\ "no_changes" \notin msgs[last.rule]

\* C7: when staging or committing an accepted rule's changes fails, the rule
\* is among the failed rules, the index and HEAD are as before the rule,
\* and the edits stay on disk.
C7_CommitFailureLeavesUnstaged ==
    (last.decision = "accept" /\ ~last.commitOk)
        => /\ last.rule \in failed_rules
           /\ index = last.preIdx
           /\ headTree = last.preHead
           /\ worktree = last.toolWt


\* C28: whatever the earlier rules came to, a commit created for a rule
\* holds only the changes of that rule's own invocation: edits left in the
\* working tree or the index by an earlier declined or failed rule are
\* never committed under its message.
C28_CommitHoldsOnlyOwnChanges ==
    \A k \in 1..Len(commits) : commits[k].edits \subseteq {commits[k].rule}


\* the terminal states a rule's messages put it in
TerminalStates(rule) ==
    {s \in {"COMMITTED", "SKIPPED", "COMMIT_FAILED"} :
        \/ s = "COMMITTED" /\ "committed" \in msgs[rule]
        \/ s = "SKIPPED" /\ "skipped" \in msgs[rule]
        \/ s = "COMMIT_FAILED" /\ msgs[rule] \cap {"commit_failed", "stage_failed"} # {}}

\* C26: per run a rule is applied at most once, a rule that was applied with
\* changes ends in exactly one of COMMITTED, SKIPPED and COMMIT_FAILED, and
\* at the final summary no rule is both among the successfully processed
\* rules and among the failed rules.
C26_RuleEndsInOneTerminalState ==
    phase = "done"
        => /\ \A rule \in 1..NRules :
                 Cardinality({k \in 1..Len(commits) : commits[k].rule = rule}) <= 1
           /\ \A rule \in 1..pos :
                 "applied" \in msgs[rule] => Cardinality(TerminalStates(rule)) = 1
           /\ processed_rules \cap failed_rules = {}

\* C26 holds of the comprehensive script, which counts a rule as processed
\* only when its commit was made or declined
C26_HoldsForComprehensive ==
    script = "comprehensive" => C26_RuleEndsInOneTerminalState
---------------------------------------------------------------------------
(* Claims about the hand-written fixes                                     *)

\* C8: each of the six hand-written transforms is idempotent: applying a
\* transform to its own output changes nothing, so the second of two
\* unfiltered applications of the same rule leaves the file as the first
\* one wrote it.
C8_TransformIsIdempotent ==
    (fixes >= 2 /\ ~changes_only) => file_lines = original_content

\* s is t with some elements left out
RECURSIVE IsSubsequence(_, _)
IsSubsequence(s, t) ==
    IF s = <<>> THEN TRUE
    ELSE IF t = <<>> THEN FALSE
    ELSE IF Head(s) = Head(t) THEN IsSubsequence(Tail(s), Tail(t))
    ELSE IsSubsequence(s, Tail(t))

\* the lines of a text whose numbers, counted from `first`, are not in scope
RECURSIVE OutOfScopeLines(_, _, _)
OutOfScopeLines(lines, first, scope) ==
    IF lines = <<>> THEN <<>>
    ELSE (IF first \in scope THEN <<>> ELSE <<Head(lines)>>)
         \o OutOfScopeLines(Tail(lines), first + 1, scope)

\* C9: in change-scoped mode every line whose 1-based number is not in the
\* file's changed-line set is left unchanged by a transform: the text of
\* each such line is still in the output, in the same order (lines a
\* transform inserts between them are allowed).
C9_OutOfScopeLinesUnchanged ==
    (fixes = 1 /\ changes_only)
        => IsSubsequence(OutOfScopeLines(original_content, 1, changed_lines), file_lines)

UpperOf == [c \in {"y", "e", "s", "o", "n", "f"} |->
              CASE c = "y" -> "Y" [] c = "e" -> "E" [] c = "s" -> "S"
                [] c = "o" -> "O" [] c = "n" -> "N" [] c = "f" -> "F"]

\* every spelling of a lower-case word in upper and lower case letters
CaseVariants(word) ==
    {v \in [1..Len(word) -> UNION {{word[i], UpperOf[word[i]]} : i \in 1..Len(word)}] :
        \A i \in 1..Len(word) : v[i] \in {word[i], UpperOf[word[i]]}}

TrueSpellings == CaseVariants(<<"y", "e", "s">>) \cup CaseVariants(<<"o", "n">>)
FalseSpellings == CaseVariants(<<"n", "o">>) \cup CaseVariants(<<"o", "f", "f">>)

\* the positions of a colon that is followed by blanks, one of the words and
\* nothing but blanks up to the end of the line
TrailingValueAt(line, words) ==
    {k \in 1..Len(line) : \E w \in words : TruthyAt(line, k, w)}

\* what the boolean-literal transform is to make of a line
TruthyExpected(line) ==
    IF TrailingValueAt(line, TrueSpellings) # {}
    THEN SubSeq(line, 1, (CHOOSE k \in TrailingValueAt(line, TrueSpellings) : TRUE) - 1)
         \o ColonTrue
    ELSE IF TrailingValueAt(line, FalseSpellings) # {}
    THEN SubSeq(line, 1, (CHOOSE k \in TrailingValueAt(line, FalseSpellings) : TRUE) - 1)
         \o ColonFalse
    ELSE line

\* C10: the boolean-literal transform rewrites a trailing value after a
\* colon to true for every case-variant of yes and on, to false for every
\* case-variant of no and off, and leaves a line with any other trailing
\* value unchanged.
C10_TruthyCoversCaseVariants ==
    (manual_rule = "yaml[truthy]" /\ fixes = 1 /\ ~changes_only)
        => /\ Len(file_lines) = Len(original_content)
           /\ \A i \in 1..Len(file_lines) :
                 file_lines[i] = TruthyExpected(original_content[i])


\* a conditional-failure directive within the next LookAheadSpan lines after
\* line i, at the indentation of line i or deeper
FailedWhenAhead(lines, i) ==
    \E j \in (i + 1)..Min(i + LookAheadSpan, Len(lines)) :
        IsFailedWhen(lines[j]) /\ IndentOf(lines[j]) >= IndentOf(lines[i])

CommentedOut(line) == At(line, SkipClass(line, 1, WS), <<"#">>)

\* `out` from position p on is what the conversion is to make of `lines`
\* from line i on
RECURSIVE ConvertedFrom(_, _, _, _)
ConvertedFrom(lines, i, out, p) ==
    IF i > Len(lines) THEN p = Len(out) + 1
    ELSE IF IsIgnoreErrors(lines[i]) /\ ~FailedWhenAhead(lines, i)
    THEN /\ p + 1 <= Len(out)
         /\ CommentedOut(out[p])
         /\ StartsWith(out[p + 1], Spaces(IndentOf(lines[i])) \o <<"f", "a", "i", "l", "e", "d", "_", "w", "h", "e", "n", ":", " ", "f", "a", "l", "s", "e">>)
         /\ ConvertedFrom(lines, i + 1, out, p + 2)
    ELSE /\ p <= Len(out)
         /\ out[p] = lines[i]
         /\ ConvertedFrom(lines, i + 1, out, p + 1)

\* C24: the conversion rewrites a line that sets ignore_errors to a truthy
\* literal if and only if no failed_when occurs within the next 10 lines at
\* the same or deeper indentation; a rewritten line is commented out and
\* followed by an inserted `failed_when: false` line of the same indentation,
\* and no other line is altered.
C24_ConvertsIffNoFailedWhenAhead ==
    (manual_rule = "ignore-errors" /\ fixes = 1 /\ ~changes_only)
        => ConvertedFrom(original_content, 1, file_lines, 1)

\* the same for files in which the directive has fewer than LookAheadSpan
\* lines after it
C24_HoldsForShortFiles ==
    Len(original_content) < LookAheadSpan => C24_ConvertsIffNoFailedWhenAhead

\* the key of a line when it is a short module name of the lookup table,
\* else <<>>
ModuleKey(line) ==
    LET m1 == ModuleMatch(line, TRUE)
        m == IF m1 # <<>> THEN m1 ELSE ModuleMatch(line, FALSE)
        key == IF m = <<>> THEN <<>> ELSE SubSeq(line, m[1], m[2] - 1)
    IN  IF key # <<>> /\ InFqcnMap(key) THEN key ELSE <<>>

\* the line that opens the task block line i lies in, or 0: the nearest
\* `- name:` line above i with no task or play marker from there up to i
BlockOf(lines, i) ==
    LET opens == {s \in 1..(i - 1) :
                     /\ IsTaskStart(lines[s])
                     /\ \A k \in (s + 1)..i : ~IsTaskOrPlay(lines[k])}
    IN  IF opens = {} THEN 0 ELSE CHOOSE s \in opens : TRUE

RewrittenLines == {i \in 1..Len(file_lines) : file_lines[i] # original_content[i]}

\* the first line of every task block whose key is a short module name
FirstModuleLines(lines) ==
    {i \in 1..Len(lines) :
        /\ BlockOf(lines, i) # 0
        /\ ModuleKey(lines[i]) # <<>>
        /\ \A k \in 1..(i - 1) :
              BlockOf(lines, k) = BlockOf(lines, i) => ModuleKey(lines[k]) = <<>>}

\* C25: the module-qualification rewrite changes at most one line per task
\* block, the first line of the block whose key is a short module name of
\* the lookup table; no further line of the block and no line outside a
\* task block is rewritten.
C25_OneRewritePerTaskBlock ==
    (manual_rule = "fqcn[action-core]" /\ fixes = 1) =>
        /\ Len(file_lines) = Len(original_content)
        /\ \A i \in RewrittenLines :
              /\ BlockOf(original_content, i) # 0
              /\ ModuleKey(original_content[i]) # <<>>
        /\ \A i, k \in RewrittenLines :
              BlockOf(original_content, i) = BlockOf(original_content, k) => i = k
        /\ ~changes_only => RewrittenLines = FirstModuleLines(original_content)

\* the same without a change filter
C25_HoldsWithoutChangeFilter == ~changes_only => C25_OneRewritePerTaskBlock

---------------------------------------------------------------------------
(* Claims about the rule catalog                                           *)

\* C11: get_fixable_rules returns a non-empty list for every combination of
\* outcomes of the tool's JSON and text rule listings, the unreachable tool
\* included: no call raises and no call returns the empty list.
C11_FixableRulesNeverEmpty ==
    fixable # NoResult => (fixable.raised = "none" /\ fixable.rules # <<>>)

---------------------------------------------------------------------------
(* Claims about the commit-message prefix                                  *)

\* a file lies in a directory: the directory's segments begin the file's
InDirectory(dir, file) ==
    Len(dir) < Len(file) /\ SubSeq(file, 1, Len(dir)) = dir

RolesDir == <<<<"p", "l", "a", "y", "b", "o", "o", "k", "s">>, <<"r", "o", "l", "e", "s">>>>

\* the target is the directory of a role, or lies in one
IsRoleTarget(target) == Len(target) > Len(RolesDir) /\ SubSeq(target, 1, Len(RolesDir)) = RolesDir

\* C13: the prefix is the broad scope `playbooks:` whenever at least one
\* changed file lies outside the targeted directory, and a role-specific
\* prefix `<role>:` is produced only when every changed file lies inside
\* the targeted role directory.
C13_PrefixFallsBackToBroadScope ==
    prefix # NoPrefix
        => LET someOutside == \E k \in 1..Len(commit_files) :
                                  ~InDirectory(target_path, commit_files[k])
           IN  /\ someOutside => prefix = PlaybooksPrefix
               /\ (IsRoleTarget(target_path) /\ prefix = target_path[Len(RolesDir) + 1] \o <<":">>)
                     => ~someOutside

---------------------------------------------------------------------------
(* Claims about file discovery                                             *)

\* the file of the tree a discovered path names
FileOf(path) ==
    CHOOSE f \in fs_tree :
        path = (IF discover_mode = "changes" THEN f.rel ELSE Under(root_path, f.rel))

\* C14: every file returned by file discovery, in recursive mode and in
\* changes-only mode, is matched by no exclude pattern (defaults plus
\* user-supplied) and passes the relevance heuristic: a path segment from
\* the directory allow-list, or a marker in the first kilobyte.
C14_DiscoveredFilesAreRelevant ==
    \A p \in discovered.files :
        /\ ~should_exclude_file(p, DefaultExcludes \o user_excludes)
        /\ is_ansible_file([path |-> p, marked |-> FileOf(p).marked])

\* the directories on a path: every segment but the last
DirectorySegments(path) ==
    LET parts == Split(path) IN {parts[k] : k \in 1 .. (Len(parts) - 1)}

\* C15: with the exclude pattern **/build/** (one of the defaults), file
\* discovery returns no path that has a directory segment named build, at
\* any depth, the first segment of a relative path included, for relative
\* and absolute roots.
C15_BuildDirectoriesOmitted ==
    \A p \in discovered.files : <<"b", "u", "i", "l", "d">> \notin DirectorySegments(p)

---------------------------------------------------------------------------
(* Claims about the telemetry plotters                                     *)

\* the blocks the stated rule drops: those that fail JSON parsing (an empty
\* block too) and those whose JSON has an `error` key
Dropped(entry) ==
    \/ entry.body.kind \in {"blank", "malformed"}
    \/ entry.body.kind = "object" /\ "error" \in DOMAIN entry.body.fields

Retained(entries) == SelectSeq(entries, LAMBDA e : ~Dropped(e))

ThreeBlocksOneError(entries) ==
    /\ Len(entries) = 3
    /\ Len(SelectSeq(entries, LAMBDA e : e.body = JsonObject([k \in {"error"} |-> ErrorValue]))) = 1
    /\ Len(Retained(entries)) = 2

\* C16: parsing a telemetry log does not raise whatever the blocks hold; the
\* blocks that fail JSON parsing or have an `error` key are dropped, every
\* other block is retained, in file order; three blocks of which one is the
\* error object give two samples.
C16_ParsingNeverRaises ==
    parsed # NoParse =>
        /\ parsed.raised = "none"
        /\ Len(parsed.data_points) = Len(Retained(log_entries))
        /\ \A i \in 1..Len(parsed.data_points) :
              /\ parsed.data_points[i].kind = Retained(log_entries)[i].body.kind
              /\ DOMAIN parsed.data_points[i].fields
                    = DOMAIN Retained(log_entries)[i].body.fields
        /\ ThreeBlocksOneError(log_entries) => Len(parsed.data_points) = 2

HasKey(sample, key) == sample.kind = "object" /\ key \in DOMAIN sample.fields

\* C17: extract_metric_series returns one element per sample, the i-th being
\* sample i's value for the key, or 0 when sample i has no such key.
C17_SeriesAlignedWithSamples ==
    series # NoSeries =>
        /\ Len(series.values) = Len(parsed.data_points)
        /\ \A i \in 1..Len(parsed.data_points) :
              /\ HasKey(parsed.data_points[i], series.key) =>
                    series.values[i] = parsed.data_points[i].fields[series.key]
              /\ ~HasKey(parsed.data_points[i], series.key) =>
                    series.values[i] = PlainNumber(<<>>)

C17_Witness ==
    /\ series # NoSeries
    /\ Len(parsed.data_points) = 3
    /\ \E i, j \in 1..Len(parsed.data_points) :
          /\ i < j
          /\ ~HasKey(parsed.data_points[i], series.key)
          /\ HasKey(parsed.data_points[j], series.key)
          /\ series.values[j] # PlainNumber(<<>>)

\* x * 2^times, by repeated doubling
RECURSIVE Doubled(_, _)
Doubled(x, times) == IF times = 0 THEN x ELSE Doubled(BigAdd(x, x), times - 1)

StoredAs(raw) ==
    IF raw.type = "dict" THEN PlainNumber(BigAdd(Doubled(raw.hi, ShiftBits), raw.lo))
    ELSE raw

\* C18: in every retained sample a field whose raw value is a {hi, lo} pair
\* is stored as hi * 2^32 + lo, and a plain number is stored unchanged.
C18_HiLoPairsCombined ==
    (parsed.raised = "none" /\ Len(parsed.data_points) = Len(Retained(log_entries))) =>
        \A i \in 1..Len(parsed.data_points) :
            LET raw == Retained(log_entries)[i].body
            IN  raw.kind = "object" =>
                  \A k \in DOMAIN raw.fields :
                      /\ k \in DOMAIN parsed.data_points[i].fields
                      /\ parsed.data_points[i].fields[k] = StoredAs(raw.fields[k])

\* the same, for the OCP plotter alone
C18_OcpPairsCombined == plotter = "ocp" => C18_HiLoPairsCombined

---------------------------------------------------------------------------
(* Claims about generate_refs.py                                           *)

Generated == output # NoOutput

\* the position of the endchoice line
EndChoiceAt == CHOOSE i \in 1..Len(output) : output[i] = <<"e", "n", "d", "c", "h", "o", "i", "c", "e">>

\* the option labels of the choice block, in file order: the text between
\* the quotes of every bool line
OptionLabels ==
    LET boolAt == SelectSeq([i \in 1..EndChoiceAt |-> i],
                            LAMBDA i : FindStr(output[i], 1, <<"b", "o", "o", "l", " ", "\"">>) # 0)
    IN  [k \in 1..Len(boolAt) |->
            LET line == output[boolAt[k]]
                from == FindStr(line, 1, <<"b", "o", "o", "l", " ", "\"">>) + 6
            IN  SubSeq(line, from, Len(line) - 1)]

\* the identifiers the options are bound to, in file order
OptionConfigs ==
    LET confAt == SelectSeq([i \in 1..EndChoiceAt |-> i],
                            LAMBDA i : StartsWith(output[i], <<"c", "o", "n", "f", "i", "g", " ">>))
    IN  [k \in 1..Len(confAt) |-> SubSeq(output[confAt[k]], 8, Len(output[confAt[k]]))]

\* the default lines of the string setting, in file order
DefaultLines == SubSeq(output, EndChoiceAt + 4, Len(output))

\* the default line that gives `value` under the condition `config`
QuotedDefault(value, config) ==
    <<"\t">> \o <<"d", "e", "f", "a", "u", "l", "t", " ", "\"">> \o value \o <<"\"", " ", "i", "f", " ">> \o config

\* what the string setting resolves to when `config` is the selected option:
\* the value of the first default line whose condition is `config`
ResolvesTo(config, value) ==
    \E i \in 1..Len(DefaultLines) :
        /\ DefaultLines[i] = QuotedDefault(value, config)
        /\ \A j \in 1..(i - 1) :
              SubSeq(DefaultLines[j], Len(DefaultLines[j]) - Len(config) - 3,
                     Len(DefaultLines[j])) # <<" ", "i", "f", " ">> \o config

NoDuplicates(seq) == \A i, j \in 1..Len(seq) : seq[i] = seq[j] => i = j

\* C19: the reference list the options are emitted from is de-duplicated and
\* every reference name yields exactly one selectable option, also when a
\* short name occurs among the heads and among the tags.
C19_ReferenceListDeduplicated ==
    (Generated /\ extra = <<>>) =>
        /\ NoDuplicates(ref_list)
        /\ \A name \in Range(ref_list) :
              Cardinality({k \in 1..Len(OptionLabels) : OptionLabels[k] = name}) = 1

\* C20: for the reference list r_0..r_(n-1) the fragment has n options in
\* input order, option i bound to <prefix>_REF_<i>, then the string setting
\* <prefix>_REF with one default line per option in the same order, which
\* resolves to r_i when option i is selected.
C20_OptionsAndDefaultsFollowList ==
    (Generated /\ extra = <<>>) =>
        /\ Len(OptionLabels) = Len(ref_list)
        /\ Len(OptionConfigs) = Len(ref_list)
        /\ output[EndChoiceAt + 2] = <<"c", "o", "n", "f", "i", "g", " ">> \o KconfigPrefix \o <<"_", "R", "E", "F">>
        /\ output[EndChoiceAt + 3] = <<"\t">> \o <<"s", "t", "r", "i", "n", "g">>
        /\ Len(DefaultLines) = Len(ref_list)
        /\ \A i \in 1..Len(ref_list) :
              LET config == KconfigPrefix \o <<"_", "R", "E", "F", "_">> \o Decimal(i - 1)
              IN  /\ OptionLabels[i] = ref_list[i]
                  /\ OptionConfigs[i] = config
                  /\ DefaultLines[i] = QuotedDefault(ref_list[i], config)
                  /\ ResolvesTo(config, ref_list[i])

\* the same for lists without a repeated name; the feed 6.9, 6.8, 6.7 of the
\* scenario is one of them
C20_HoldsForDistinctNames == NoDuplicates(ref_list) => C20_OptionsAndDefaultsFollowList

C20_ScenarioReached ==
    /\ Generated
    /\ ref_list = << <<"6", ".", "9">>, <<"6", ".", "8">>, <<"6", ".", "7">> >>
    /\ ResolvesTo(KconfigPrefix \o <<"_", "R", "E", "F", "_", "0">>, <<"6", ".", "9">>)

\* C29: in the remote-repository mode with maximum count N the options
\* emitted from the heads and tags together are at most N, and no option
\* comes from a line naming a peeled tag.
C29_OptionsBoundedByMaximum ==
    (Generated /\ refs_cmd = "gitref" /\ extra = <<>>) =>
        /\ Len(OptionLabels) <= refs_limit
        /\ \A k \in 1..Len(OptionLabels) : ~Contains(OptionLabels[k], <<"^", "{", "}">>)

\* the part about peeled tags alone
C29_PeeledTagsGiveNoOption ==
    (Generated /\ refs_cmd = "gitref") =>
        \A k \in 1..Len(OptionLabels) : ~Contains(OptionLabels[k], <<"^", "{", "}">>)

---------------------------------------------------------------------------
(* Claims about the regeneration of the reference menu                     *)

Populated(file) ==
    /\ file # NoFile
    /\ \E i \in 1..Len(file) :
          /\ FindStr(file[i], 1, <<"b", "o", "o", "l", " ", "\"">>) # 0
          /\ \E j \in (i + 1)..Len(file) : file[j] = <<"e", "n", "d", "c", "h", "o", "i", "c", "e">>

\* C30: when the remote query fails or returns no reference an existing
\* output file is left unchanged: a populated fragment is never replaced by
\* one with an empty choice block, in either mode.
C30_PopulatedFragmentNeverEmptied ==
    (last_main.ran /\ Populated(last_main.before)) => Populated(ref_file)

\* the part that holds: a query that raises leaves the file as it was
C30_RaisedQueryLeavesFile ==
    (last_main.ran /\ last_main.args.answer.raised) => ref_file = last_main.before

---------------------------------------------------------------------------
(* Claims about the configuration file                                     *)

ConfigApplied == merged_args # NoArgs

\* the option was written on the command line
SetExplicitly(option) == command_line[option] # None

\* the values a configuration entry stands for
ListedValues(value) == IF value.type = "str" THEN <<value.s>> ELSE value.l

\* C22: for every top-level key of the configuration file that names an
\* option, a list-valued option gets the config values appended to the
\* command-line values; any other option takes the config value if and only
\* if it was not set explicitly on the command line, and a value given on
\* the command line is never overridden.
C22_ConfigFillsUnsetOptions ==
    ConfigApplied =>
        \A key \in DOMAIN config_file \cap OptionNames :
            IF key \in ListOptions
            THEN merged_args[key] =
                    List((IF SetExplicitly(key) THEN command_line[key].l ELSE <<>>)
                            \o ListedValues(config_file[key]))
            ELSE merged_args[key] =
                    IF SetExplicitly(key) THEN command_line[key] ELSE config_file[key]

\* the same for the options whose default is None or False
C22_HoldsForOptionsWithoutDefault ==
    (ConfigApplied /\ "path" \notin DOMAIN config_file) => C22_ConfigFillsUnsetOptions


---------------------------------------------------------------------------
(* Claims about a run as a process                                         *)

\* C23: an interruption at any point of a run (during a fix invocation, at a
\* commit prompt or at a continue prompt) is caught and ends the process
\* with a non-zero exit status, in both orchestrator scripts, and every
\* commit created before the interruption remains in place.
C23_InterruptionExitsNonZero ==
    [][phase' = "interrupted"
          => /\ interruption'.caught
             /\ interruption'.status # 0
             /\ Len(commits') >= Len(commits)
             /\ SubSeq(commits', 1, Len(commits)) = commits]_vars

\* C23 holds of the comprehensive script, whose main() handles the interruption
C23_HoldsForComprehensive ==
    (script = "comprehensive" /\ phase = "interrupted")
        => interruption.caught /\ interruption.status # 0

\* in neither script does an interruption take a commit away
C23_CommitsRemain ==
    [][phase' = "interrupted"
          => /\ Len(commits') >= Len(commits)
             /\ SubSeq(commits', 1, Len(commits)) = commits]_vars

\* the kinds of command that change the working tree, the index or the history
ChangingCommands == {"fix", "add", "commit", "write"}

\* C27: in dry-run mode no step of any of the three scripts runs a fix
\* command of the external tool, writes a file of the working tree, stages
\* anything or creates a commit; this holds of rule-by-rule processing, of
\* tag processing and of the hand-written fixes.
C27_DryRunChangesNothing ==
    [][dry_run
          => /\ commands' \cap ChangingCommands = {}
             /\ worktree' = worktree
             /\ index' = index
             /\ headTree' = headTree
             /\ commits' = commits]_vars

\* a dry run of tag processing, in the plain script, has gone through its handler
C27_Witness ==
    /\ dry_run
    /\ phase = "done"
    /\ run_mode = "tag"
    /\ script = "fixrules"
    /\ "list" \in commands
===========================================================================
